---- MODULE Spec2Model ----
(***************************************************************************)
(* Model of the trace processor's MappingTracker                           *)
(* (src/trace_processor/importers/common/mapping_tracker.{h,cc}) and of    *)
(* the frame interning of VirtualMemoryMapping                             *)
(* (src/trace_processor/importers/common/virtual_memory_mapping.cc).       *)
(*                                                                         *)
(* A failed PERFETTO_CHECK terminates the process: the model sets          *)
(* `aborted`, records the call in `op` with no return value and takes no   *)
(* further step; the memory of the dead process is not observable and is   *)
(* left as it was when the call was made.                                  *)
(*                                                                         *)
(* The second part models DbSqliteTable and its Cursor                     *)
(* (src/trace_processor/sqlite/db_sqlite_table.cc): BestIndex, the cost    *)
(* estimate, and Cursor::Filter with the sort-cache policy.                *)
(***************************************************************************)
EXTENDS Integers, Sequences, FiniteSets, TLC

VARIABLES
  mappings_by_id,                 \* MappingId -> mapping object (owned)
  interned_mappings,              \* CreateMappingParams -> MappingId
  mappings_by_name_and_build_id,  \* NameAndBuildId -> sequence of MappingId
  user_memory,                    \* UniquePid -> AddressRangeMap of MappingId
  kernel_modules,                 \* AddressRangeMap of MappingId
  kernel,                         \* MappingId of the kernel core, or NoMapping
  jit_delegates,                  \* UniquePid -> AddressRangeMap of delegate
  interned_frames,                \* MappingId -> (FrameKey -> FrameId)
  frames_by_rel_pc,               \* MappingId -> (rel_pc -> sequence of FrameId)
  string_pool,                    \* storage string pool: sequence of strings
  frame_table,                    \* stack_profile_frame_table rows
  delegate_frames,                \* delegate -> (<<mapping, rel_pc, name>> -> FrameId)
  frames_created,                 \* OnFrameCreated notifications, in order
  aborted,                        \* a PERFETTO_CHECK failed
  op,                             \* the last call: name, arguments, result
  ncalls,                         \* number of calls made so far
  first_interned,                 \* history: params -> mapping first returned
  frame_calls,                    \* history: <<mapping, rel_pc, name>> ->
                                  \*   FrameIds returned, notifications, calls
  computation,                    \* context_->computation, "none" before Init
  schema_,                        \* DbSqliteTable::schema_: sequence of columns
  regex_supported,                \* regex::IsRegexSupported() of the build
  row_count,                      \* row_count() / EstimateRowCount()
  cache_,                         \* Cursor::cache_ is not nullptr
  query_cache,                    \* QueryCache: the cached (table, constraints)
  cursor_open,                    \* a Cursor has been constructed
  upstream_table_,                \* Cursor::upstream_table_
  sorted_cache_table_,            \* Cursor::sorted_cache_table_
  dynamic_table_,                 \* Cursor::dynamic_table_
  repeated_cache_count_,          \* Cursor::repeated_cache_count_
  constraints_,                   \* Cursor::constraints_
  orders_,                        \* Cursor::orders_
  table_function_arguments_,      \* Cursor::table_function_arguments_
  argument_index_per_column_,     \* Cursor::argument_index_per_column_
  mode_,                          \* Cursor::mode_
  single_row_,                    \* Cursor::single_row_
  eof_,                           \* Cursor::eof_
  iterator_,                      \* Cursor::iterator_
  info,                           \* BestIndexInfo of the last BestIndex call
  events,                         \* calls made by the last Filter, in order
  last_qc,                        \* history: the qc of the last Filter, if any
  same_run,                       \* history: Same Filters since a Different
  tables_computed,                \* history: tables ComputeTable has returned
  filter_map,                     \* history: the RowMap of the last Filter
  cursors_created,                \* history: Cursors constructed so far
  last_ftrace_event_ids_,         \* FtraceModule::last_ftrace_event_ids_
  cpus_set                        \* history: cpus SetLastFtraceEventId got

vars == <<mappings_by_id, interned_mappings, mappings_by_name_and_build_id,
          user_memory, kernel_modules, kernel, jit_delegates,
          interned_frames, frames_by_rel_pc, string_pool, frame_table,
          delegate_frames, frames_created, aborted, op, ncalls,
          first_interned, frame_calls,
          computation, schema_, regex_supported, row_count, cache_,
          query_cache, cursor_open, upstream_table_, sorted_cache_table_,
          dynamic_table_, repeated_cache_count_, constraints_, orders_,
          table_function_arguments_, argument_index_per_column_, mode_,
          single_row_, eof_, iterator_, info, events, last_qc, same_run,
          tables_computed, filter_map, cursors_created,
          last_ftrace_event_ids_, cpus_set>>

trackerVars == <<mappings_by_id, interned_mappings,
                 mappings_by_name_and_build_id, user_memory, kernel_modules,
                 kernel, jit_delegates>>

frameVars == <<interned_frames, frames_by_rel_pc, string_pool, frame_table,
               delegate_frames, frames_created>>

historyVars == <<first_interned, frame_calls>>

tableVars == <<computation, schema_, regex_supported, row_count, cache_>>

cursorVars == <<cursor_open, upstream_table_, sorted_cache_table_,
                dynamic_table_, repeated_cache_count_, constraints_, orders_,
                table_function_arguments_, argument_index_per_column_, mode_,
                single_row_, eof_, iterator_>>

filterHistoryVars == <<events, last_qc, same_run, tables_computed,
                       filter_map, cursors_created>>

sqlVars == <<tableVars, query_cache, cursorVars, info, filterHistoryVars>>

ftraceVars == <<last_ftrace_event_ids_, cpus_set>>

----------------------------------------------------------------------------
(* Bounds and input domains *)

\* number of tracker calls in one run
MaxCalls == 3

\* number of calls in one run of the frame-interning specification
MaxFrameCalls == 4

\* number of calls in one run of the BestIndex specification
MaxIndexCalls == 2

\* number of calls in one run of the Filter specification
MaxFilterCalls == 4

\* number of calls in one run of the sort-cache specification
MaxSortCalls == 7

\* number of calls in one run of the row-map specification
MaxRowMapCalls == 4

\* number of calls in one run of the argument-routing specification
MaxRoutingCalls == 4

\* number of calls in one run of the planner specifications
MaxPlanCalls == 2

\* number of constraints ModifyConstraints is given
MaxPlanConstraints == 3

\* number of order-by terms ModifyConstraints is given
MaxPlanOrders == 3

\* number of calls in one run of the cost specification
MaxCostCalls == 2

\* the tables of the cost specification have 0 .. MaxRows rows
MaxRows == 20

\* number of constraints in the cost specification
MaxCostConstraints == 2

\* number of calls in one run of the sort-policy specification
MaxPolicyCalls == 7

\* number of calls in one run of the repeated-Filter specification
MaxRetryCalls == 9

\* number of calls in one run of the ftrace specification
MaxFtraceCalls == 3

\* cpus are 0 .. MaxCpu, and 2^32 - 1
MaxCpu == 2

\* number of calls in one run of the cache-sharing specification
MaxSharingCalls == 10

\* addresses are 0 .. MaxAddr
MaxAddr == 2

Pids == {7, 8}

Delegates == {"D1", "D2"}

\* nullptr of a JitDelegate*
NoDelegate == "null"

\* nullptr of a mapping pointer
NoMapping == -1

\* std::nullopt of an optional BuildId is the empty sequence, a present
\* build id is a one-element sequence
NoBuildId == << >>

EmptyFcn == [x \in {} |-> 0]

----------------------------------------------------------------------------
(* AddressRange and AddressRangeMap (address_range.h) *)

AddressRange(s, e) == [start |-> s, end |-> e]

\* the non-empty ranges over the address space of the model (what Emplace
\* does with an empty range is decided by address_range.h alone, so the
\* calls of the model pass none)
Ranges == {AddressRange(s, e) : s \in 0..MaxAddr, e \in 0..MaxAddr} \
            {r \in {AddressRange(s, e) : s \in 0..MaxAddr, e \in 0..MaxAddr} :
               r.start >= r.end}

ContainsAddr(r, a) == r.start <= a /\ a < r.end

Contains(r, o) == r.start <= o.start /\ o.end <= r.end

Overlaps(r, o) ==
  LET lo == IF r.start >= o.start THEN r.start ELSE o.start
      hi == IF r.end <= o.end THEN r.end ELSE o.end
  IN  lo < hi

\* find(addr): the stored ranges containing addr (none or one)
RangeMapFind(m, a) == {r \in DOMAIN m : ContainsAddr(r, a)}

\* for_overlaps(range, fn): the stored ranges fn is invoked on
RangeMapOverlaps(m, range) == {r \in DOMAIN m : Overlaps(r, range)}

\* emplace(range, v) returns true iff range is disjoint from every stored range
RangeMapCanEmplace(m, range) == RangeMapOverlaps(m, range) = {}

RangeMapEmplace(m, range, v) ==
  [r \in DOMAIN m \cup {range} |-> IF r = range THEN v ELSE m[r]]

RangeMapDeleteOverlapsAndEmplace(m, range, v) ==
  [r \in (DOMAIN m \ RangeMapOverlaps(m, range)) \cup {range} |->
     IF r = range THEN v ELSE m[r]]

\* FlatHashMap::operator[]: the entry of key k, default-constructed if absent
MapAt(m, k) == IF k \in DOMAIN m THEN m[k] ELSE EmptyFcn

MapPut(m, k, v) == [x \in DOMAIN m \cup {k} |-> IF x = k THEN v ELSE m[x]]

----------------------------------------------------------------------------
(* CreateMappingParams and mapping objects *)

Params(range, exact_offset, start_offset, load_bias, name, build_id) ==
  [memory_range |-> range, exact_offset |-> exact_offset,
   start_offset |-> start_offset, load_bias |-> load_bias,
   name |-> name, build_id |-> build_id]

\* base::StringView::StartsWith
StartsWith(s, prefix) ==
  Len(s) >= Len(prefix) /\ SubSeq(s, 1, Len(prefix)) = prefix

IsKernelModuleExactName(name) ==
  name # "[kernel.kallsyms]" /\ name # "/kernel"

IsKernelModule(name) ==
  ~StartsWith(name, "[kernel.kallsyms]") /\ name # "/kernel"

\* the id of the row Insert() appends to the stack_profile_mapping_table
NextMappingId == Cardinality(DOMAIN mappings_by_id)

\* the object the VirtualMemoryMapping constructor builds
NewMapping(kind, upid, params) ==
  [kind |-> kind, upid |-> upid,
   memory_range |-> params.memory_range,
   offset |-> params.exact_offset,
   load_bias |-> params.load_bias,
   name |-> params.name,
   build_id |-> params.build_id,
   jit_delegate |-> NoDelegate]

NameAndBuildId(name, build_id) == [name |-> name, build_id |-> build_id]

----------------------------------------------------------------------------
(* Call bookkeeping *)

\* a call that returns `ret`
Return(name, args, ret) ==
  /\ op' = [name |-> name, args |-> args, returned |-> TRUE, ret |-> ret]
  /\ ncalls' = ncalls + 1
  /\ aborted' = aborted
  /\ UNCHANGED <<sqlVars, ftraceVars>>

\* a call in which a PERFETTO_CHECK fails: the process terminates
Abort(name, args) ==
  /\ op' = [name |-> name, args |-> args, returned |-> FALSE, ret |-> NoMapping]
  /\ ncalls' = ncalls + 1
  /\ aborted' = TRUE
  /\ UNCHANGED <<trackerVars, frameVars, historyVars, sqlVars, ftraceVars>>

CanCall == ~aborted

----------------------------------------------------------------------------
(* MappingTracker *)

AddMappingByNameOnly(id, mapping) ==
  /\ mappings_by_id' = MapPut(mappings_by_id, id, mapping)
  /\ mappings_by_name_and_build_id' =
       LET k == NameAndBuildId(mapping.name, NoBuildId)
           old == IF k \in DOMAIN mappings_by_name_and_build_id
                  THEN mappings_by_name_and_build_id[k] ELSE << >>
       IN  MapPut(mappings_by_name_and_build_id, k, Append(old, id))

\* AddMapping that keeps only the mapping it inserts
AddMappingOnlyLast(id, mapping) ==
  /\ mappings_by_id' = MapPut(EmptyFcn, id, mapping)
  /\ mappings_by_name_and_build_id' =
       LET k == NameAndBuildId(mapping.name, mapping.build_id)
           old == IF k \in DOMAIN mappings_by_name_and_build_id
                  THEN mappings_by_name_and_build_id[k] ELSE << >>
       IN  MapPut(mappings_by_name_and_build_id, k, Append(old, id))

\* AddMapping: insert into mappings_by_id_ and append to the (name, build id)
\* bucket; the caller has checked that id is not yet in mappings_by_id_
AddMapping(id, mapping) ==
  /\ mappings_by_id' = MapPut(mappings_by_id, id, mapping)
  /\ mappings_by_name_and_build_id' =
       LET k == NameAndBuildId(mapping.name, mapping.build_id)
           old == IF k \in DOMAIN mappings_by_name_and_build_id
                  THEN mappings_by_name_and_build_id[k] ELSE << >>
       IN  MapPut(mappings_by_name_and_build_id, k, Append(old, id))

\* PERFETTO_CHECK(params.memory_range == kernel_->memory_range())
KernelCoreRangeAny(params) == TRUE

\* the check with the starts of the two ranges compared only
KernelCoreRangeStartMatches(params) ==
  params.memory_range.start = mappings_by_id[kernel].memory_range.start

KernelCoreRangeMatches(params) ==
  params.memory_range = mappings_by_id[kernel].memory_range

\* kernel_modules_.Emplace(mapping->memory_range(), mapping.get())
KernelModuleRangeFree(range) == RangeMapCanEmplace(kernel_modules, range)

\* the body of CreateKernelMemoryMapping(params), in a call recorded as
\* `name` with arguments `args`
CreateKernelMemoryMappingBody(name, args, params) ==
  LET is_module == IsKernelModule(params.name)
      id == NextMappingId
  IN
  /\ CanCall
  /\ IF ~is_module /\ kernel # NoMapping
     THEN IF KernelCoreRangeMatches(params)
          THEN /\ Return(name, args, kernel)
               /\ UNCHANGED <<trackerVars, frameVars, historyVars>>
          ELSE Abort(name, args)
     ELSE IF (is_module /\ ~KernelModuleRangeFree(params.memory_range))
             \/ id \in DOMAIN mappings_by_id
          THEN Abort(name, args)
          ELSE /\ kernel_modules' =
                    IF is_module
                    THEN RangeMapEmplace(kernel_modules, params.memory_range, id)
                    ELSE kernel_modules
               /\ kernel' = IF is_module THEN kernel ELSE id
               /\ AddMapping(id, NewMapping("kernel", 0, params))
               /\ Return(name, args, id)
               /\ UNCHANGED <<interned_mappings, user_memory, jit_delegates,
                              frameVars, historyVars>>

CreateKernelMemoryMapping(params) ==
  CreateKernelMemoryMappingBody("CreateKernelMemoryMapping",
                                [params |-> params], params)

\* static_cast<uint64_t>(n) of an int n, as the four 16-bit digits of the
\* result, least significant first (sign-extended two's complement)
Uint64(n) ==
  LET d1 == n \div 65536
      d2 == d1 \div 65536
      d3 == d2 \div 65536
  IN  <<n % 65536, d1 % 65536, d2 % 65536, d3 % 65536>>

\* the CreateMappingParams GetOrCreateKernelMemoryMappingDefault builds
DefaultKernelParams ==
  Params(AddressRange(0, 0), 0, 0, Uint64(-1), "/kernel", NoBuildId)

\* if (kernel_)
DefaultKernelNeverExists == FALSE

DefaultKernelExists == kernel # NoMapping

GetOrCreateKernelMemoryMappingDefault ==
  IF DefaultKernelExists
  THEN /\ CanCall
       /\ Return("GetOrCreateKernelMemoryMappingDefault", EmptyFcn, kernel)
       /\ UNCHANGED <<trackerVars, frameVars, historyVars>>
  ELSE CreateKernelMemoryMappingBody("GetOrCreateKernelMemoryMappingDefault",
                                     EmptyFcn, DefaultKernelParams)

\* what FindKernelMappingForAddress returns: the kernel core is looked at
\* before the modules
FindKernelResultCoreFirst(address) ==
  LET km == RangeMapFind(kernel_modules, address)
  IN  IF kernel # NoMapping
         /\ ContainsAddr(mappings_by_id[kernel].memory_range, address)
      THEN kernel
      ELSE IF km # {} THEN kernel_modules[CHOOSE r \in km : TRUE]
      ELSE NoMapping

\* what FindKernelMappingForAddress returns: the module found in
\* kernel_modules_, else the core if its range contains the address, else
\* nullptr
FindKernelResult(address) ==
  LET km == RangeMapFind(kernel_modules, address)
  IN  IF km # {} THEN kernel_modules[CHOOSE r \in km : TRUE]
      ELSE IF kernel # NoMapping
              /\ ContainsAddr(mappings_by_id[kernel].memory_range, address)
      THEN kernel
      ELSE NoMapping

FindKernelMappingForAddress(address) ==
  /\ CanCall
  /\ Return("FindKernelMappingForAddress", [address |-> address],
            FindKernelResult(address))
  /\ UNCHANGED <<trackerVars, frameVars, historyVars>>

\* user_memory_[upid].Emplace(mapping_range, mapping.get())
UserRangeAlwaysFree(upid, range) == TRUE

UserRangeFree(upid, range) ==
  RangeMapCanEmplace(MapAt(user_memory, upid), range)

\* PERFETTO_CHECK(jit_range.Contains(mapping_range)) for every overlapping range
JitRangesContain(upid, range) ==
  \A r \in RangeMapOverlaps(MapAt(jit_delegates, upid), range) :
     Contains(r, range)

\* the delegate ForOverlaps leaves in the new mapping: that of the last
\* overlapping range in ascending start order, none without an overlap
JitDelegateOfAnyPid(upid, range) ==
  LET all == {<<p, r>> \in Pids \X Ranges :
                p \in DOMAIN jit_delegates /\ r \in DOMAIN jit_delegates[p]
                /\ Overlaps(r, range)}
  IN  IF all = {} THEN NoDelegate
      ELSE LET c == CHOOSE x \in all : TRUE IN jit_delegates[c[1]][c[2]]

JitDelegateFor(upid, range) ==
  LET jd == MapAt(jit_delegates, upid)
      over == RangeMapOverlaps(jd, range)
  IN  IF over = {} THEN NoDelegate
      ELSE jd[CHOOSE r \in over : \A q \in over : q.start <= r.start]

CreateUserMemoryMapping(upid, params) ==
  LET range == params.memory_range
      id == NextMappingId
      name == "CreateUserMemoryMapping"
      args == [upid |-> upid, params |-> params]
  IN
  /\ CanCall
  /\ IF ~UserRangeFree(upid, range) \/ ~JitRangesContain(upid, range)
        \/ id \in DOMAIN mappings_by_id
     THEN Abort(name, args)
     ELSE /\ user_memory' =
               MapPut(user_memory, upid,
                      RangeMapEmplace(MapAt(user_memory, upid), range, id))
          /\ jit_delegates' =
               MapPut(jit_delegates, upid, MapAt(jit_delegates, upid))
          /\ AddMapping(id, [NewMapping("user", upid, params) EXCEPT
                               !.jit_delegate = JitDelegateFor(upid, range)])
          /\ Return(name, args, id)
          /\ UNCHANGED <<interned_mappings, kernel_modules, kernel,
                         frameVars, historyVars>>

\* what FindUserMappingForAddress returns: the stored user mapping, or the
\* mapping the delegate's CreateMapping() hands back (named by its delegate)
FindUserResultJitFirst(upid, address) ==
  LET um == IF upid \in DOMAIN user_memory
            THEN RangeMapFind(user_memory[upid], address) ELSE {}
      jd == IF upid \in DOMAIN jit_delegates
            THEN RangeMapFind(jit_delegates[upid], address) ELSE {}
  IN  IF jd # {}
      THEN [mapping |-> NoMapping,
            created_by |-> jit_delegates[upid][CHOOSE r \in jd : TRUE]]
      ELSE IF um # {}
      THEN [mapping |-> user_memory[upid][CHOOSE r \in um : TRUE],
            created_by |-> NoDelegate]
      ELSE [mapping |-> NoMapping, created_by |-> NoDelegate]

FindUserResult(upid, address) ==
  LET um == IF upid \in DOMAIN user_memory
            THEN RangeMapFind(user_memory[upid], address) ELSE {}
      jd == IF upid \in DOMAIN jit_delegates
            THEN RangeMapFind(jit_delegates[upid], address) ELSE {}
  IN  IF um # {}
      THEN [mapping |-> user_memory[upid][CHOOSE r \in um : TRUE],
            created_by |-> NoDelegate]
      ELSE IF jd # {}
      THEN [mapping |-> NoMapping,
            created_by |-> jit_delegates[upid][CHOOSE r \in jd : TRUE]]
      ELSE [mapping |-> NoMapping, created_by |-> NoDelegate]

FindUserMappingForAddress(upid, address) ==
  /\ CanCall
  /\ Return("FindUserMappingForAddress",
            [upid |-> upid, address |-> address],
            FindUserResult(upid, address))
  /\ UNCHANGED <<trackerVars, frameVars, historyVars>>

\* jit_delegates_[upid].DeleteOverlapsAndEmplace(jit_range, delegate)
JitRangesAfterAdd(upid, jit_range, delegate) ==
  RangeMapDeleteOverlapsAndEmplace(MapAt(jit_delegates, upid), jit_range,
                                   delegate)

\* the user mappings ForOverlaps visits in AddJitRange
JitOverlappedOfAnyPid(upid, jit_range) ==
  {id \in DOMAIN mappings_by_id :
     mappings_by_id[id].kind = "user"
     /\ Overlaps(mappings_by_id[id].memory_range, jit_range)}

JitOverlappedMappings(upid, jit_range) ==
  LET um == MapAt(user_memory, upid)
  IN  {um[r] : r \in RangeMapOverlaps(um, jit_range)}

\* PERFETTO_CHECK(jit_range.Contains(entry.first)) for every visited entry
JitRangeContainsAlways(upid, jit_range) == TRUE

JitRangeContainsOverlapped(upid, jit_range) ==
  \A r \in RangeMapOverlaps(MapAt(user_memory, upid), jit_range) :
     Contains(jit_range, r)

AddJitRange(upid, jit_range, delegate) ==
  LET name == "AddJitRange"
      args == [upid |-> upid, range |-> jit_range, delegate |-> delegate]
  IN
  /\ CanCall
  /\ IF ~JitRangeContainsOverlapped(upid, jit_range)
     THEN Abort(name, args)
     ELSE /\ jit_delegates' =
               MapPut(jit_delegates, upid,
                      JitRangesAfterAdd(upid, jit_range, delegate))
          /\ user_memory' = MapPut(user_memory, upid, MapAt(user_memory, upid))
          /\ mappings_by_id' =
               [id \in DOMAIN mappings_by_id |->
                  IF id \in JitOverlappedMappings(upid, jit_range)
                  THEN [mappings_by_id[id] EXCEPT !.jit_delegate = delegate]
                  ELSE mappings_by_id[id]]
          /\ Return(name, args, NoMapping)
          /\ UNCHANGED <<interned_mappings, mappings_by_name_and_build_id,
                         kernel_modules, kernel, frameVars, historyVars>>

\* interned_mappings_.Find(params): the mapping interned for params, if any
InternedNeverFound(params) == NoMapping

InternedLookup(params) ==
  IF params \in DOMAIN interned_mappings
  THEN interned_mappings[params] ELSE NoMapping

InternMemoryMapping(params) ==
  LET id == NextMappingId
      found == InternedLookup(params)
      name == "InternMemoryMapping"
      args == [params |-> params]
      ret == IF found # NoMapping THEN found ELSE id
  IN
  /\ CanCall
  /\ IF found # NoMapping
     THEN /\ Return(name, args, found)
          /\ UNCHANGED <<trackerVars, frameVars, frame_calls>>
          /\ first_interned' = IF params \in DOMAIN first_interned
                               THEN first_interned
                               ELSE MapPut(first_interned, params, found)
     ELSE IF id \in DOMAIN mappings_by_id
     THEN Abort(name, args)
     ELSE /\ interned_mappings' = MapPut(interned_mappings, params, id)
          /\ AddMapping(id, NewMapping("other", 0, params))
          /\ Return(name, args, id)
          /\ first_interned' = IF params \in DOMAIN first_interned
                               THEN first_interned
                               ELSE MapPut(first_interned, params, id)
          /\ UNCHANGED <<user_memory, kernel_modules, kernel, jit_delegates,
                         frameVars, frame_calls>>

\* what FindMappings returns: the bucket of (name, build_id), or empty
FindMappingsResult(name, build_id) ==
  LET k == NameAndBuildId(name, build_id)
  IN  IF k \in DOMAIN mappings_by_name_and_build_id
      THEN mappings_by_name_and_build_id[k] ELSE << >>

FindMappings(name, build_id) ==
  /\ CanCall
  /\ Return("FindMappings", [name |-> name, build_id |-> build_id],
            FindMappingsResult(name, build_id))
  /\ UNCHANGED <<trackerVars, frameVars, historyVars>>

----------------------------------------------------------------------------
(* VirtualMemoryMapping::InternFrame *)

\* TraceStorage::InternString: the id of a string is its place in the pool
StringId(pool, s) ==
  IF \E i \in 1..Len(pool) : pool[i] = s
  THEN CHOOSE i \in 1..Len(pool) : pool[i] = s
  ELSE Len(pool) + 1

PoolAfterIntern(pool, s) ==
  IF \E i \in 1..Len(pool) : pool[i] = s THEN pool ELSE Append(pool, s)

FrameKey(rel_pc, name_id) == [rel_pc |-> rel_pc, name_id |-> name_id]

\* the id of the row Insert() appends to the stack_profile_frame_table
NextFrameId == Len(frame_table)

\* InternFrameImpl: <<frame_id, was_inserted>> of the mapping's own interner
InternFrameImplAlwaysNew(id, rel_pc, function_name) == <<NextFrameId, TRUE>>

InternFrameImpl(id, rel_pc, function_name) ==
  LET key == FrameKey(rel_pc, StringId(string_pool, function_name))
      mine == MapAt(interned_frames, id)
  IN  IF key \in DOMAIN mine THEN <<mine[key], FALSE>>
      ELSE <<NextFrameId, TRUE>>

\* JitDelegate::InternFrame: the delegate interns on its own, by
\* (mapping, rel_pc, function name), and inserts its own frame rows; it cannot
\* see the mapping's interned_frames_, which is private to the mapping
DelegateInternFrame(d, id, rel_pc, function_name) ==
  LET key == <<id, rel_pc, function_name>>
      its == MapAt(delegate_frames, d)
  IN  IF key \in DOMAIN its THEN <<its[key], FALSE>>
      ELSE <<NextFrameId, TRUE>>

InternFrame(id, rel_pc, function_name) ==
  LET m == mappings_by_id[id]
      d == m.jit_delegate
      res == IF d # NoDelegate
             THEN DelegateInternFrame(d, id, rel_pc, function_name)
             ELSE InternFrameImpl(id, rel_pc, function_name)
      frame_id == res[1]
      was_inserted == res[2]
      name_id == StringId(string_pool, function_name)
      hkey == <<id, rel_pc, function_name>>
      old == IF hkey \in DOMAIN frame_calls THEN frame_calls[hkey]
             ELSE [ids |-> {}, notified |-> 0, calls |-> 0]
      by_pc == MapAt(frames_by_rel_pc, id)
  IN
  /\ CanCall
  /\ id \in DOMAIN mappings_by_id
  /\ string_pool' = PoolAfterIntern(string_pool, function_name)
  /\ frame_table' =
       IF res = <<NextFrameId, TRUE>>
       THEN Append(frame_table,
                   [name |-> name_id, mapping |-> id, rel_pc |-> rel_pc])
       ELSE frame_table
  /\ interned_frames' =
       IF d = NoDelegate /\ res = <<NextFrameId, TRUE>>
       THEN MapPut(interned_frames, id,
                   MapPut(MapAt(interned_frames, id),
                          FrameKey(rel_pc, name_id), frame_id))
       ELSE interned_frames
  /\ delegate_frames' =
       IF d # NoDelegate /\ res = <<NextFrameId, TRUE>>
       THEN MapPut(delegate_frames, d,
                   MapPut(MapAt(delegate_frames, d), hkey, frame_id))
       ELSE delegate_frames
  /\ frames_by_rel_pc' =
       IF was_inserted
       THEN MapPut(frames_by_rel_pc, id,
                   MapPut(by_pc, rel_pc,
                          Append(IF rel_pc \in DOMAIN by_pc
                                 THEN by_pc[rel_pc] ELSE << >>, frame_id)))
       ELSE frames_by_rel_pc
  /\ frames_created' =
       IF was_inserted THEN Append(frames_created, frame_id)
       ELSE frames_created
  /\ frame_calls' =
       MapPut(frame_calls, hkey,
              [ids |-> old.ids \cup {frame_id},
               notified |-> old.notified + (IF was_inserted THEN 1 ELSE 0),
               calls |-> old.calls + 1])
  /\ Return("InternFrame",
            [mapping |-> id, rel_pc |-> rel_pc, name |-> function_name],
            frame_id)
  /\ UNCHANGED <<trackerVars, first_interned>>

----------------------------------------------------------------------------
(* DbSqliteTable: constraints, operators and tables *)

\* a QueryConstraints: constraints (column, op) and order-by terms
\* (iColumn, desc)
Qc(constraints, order_by) ==
  [constraints |-> constraints, order_by |-> order_by]

EmptyQc == Qc(<< >>, << >>)

\* the SQLITE_INDEX_CONSTRAINT_* values SqliteOpToFilterOp names, and one it
\* does not name (MATCH)
SqliteOps ==
  {"EQ", "GT", "LT", "NE", "GE", "LE", "ISNULL", "ISNOTNULL", "GLOB",
   "REGEXP", "LIKE", "LIMIT", "OFFSET", "IS", "ISNOT", "MATCH"}

\* the operand of SqliteOpToFilterOp with regex support assumed
SqliteOpToFilterOpRegexAlways(sqlite_op) ==
  CASE sqlite_op = "EQ" -> "kEq"
    [] sqlite_op = "GT" -> "kGt"
    [] sqlite_op = "LT" -> "kLt"
    [] sqlite_op = "NE" -> "kNe"
    [] sqlite_op = "GE" -> "kGe"
    [] sqlite_op = "LE" -> "kLe"
    [] sqlite_op = "ISNULL" -> "kIsNull"
    [] sqlite_op = "ISNOTNULL" -> "kIsNotNull"
    [] sqlite_op = "GLOB" -> "kGlob"
    [] sqlite_op = "REGEXP" -> "kRegex"
    [] sqlite_op \in {"LIKE", "LIMIT", "OFFSET", "IS", "ISNOT"} -> "nullopt"
    [] OTHER -> "fatal"

\* SqliteOpToFilterOp: the FilterOp, "nullopt" for an operator left to
\* SQLite, "fatal" for PERFETTO_FATAL("Currently unsupported constraint")
SqliteOpToFilterOp(sqlite_op) ==
  CASE sqlite_op = "EQ" -> "kEq"
    [] sqlite_op = "GT" -> "kGt"
    [] sqlite_op = "LT" -> "kLt"
    [] sqlite_op = "NE" -> "kNe"
    [] sqlite_op = "GE" -> "kGe"
    [] sqlite_op = "LE" -> "kLe"
    [] sqlite_op = "ISNULL" -> "kIsNull"
    [] sqlite_op = "ISNOTNULL" -> "kIsNotNull"
    [] sqlite_op = "GLOB" -> "kGlob"
    [] sqlite_op = "REGEXP" ->
         IF regex_supported THEN "kRegex" ELSE "nullopt"
    [] sqlite_op \in {"LIKE", "LIMIT", "OFFSET", "IS", "ISNOT"} -> "nullopt"
    [] OTHER -> "fatal"

\* sqlite_utils::IsOpEq and its siblings
IsOpEq(sqlite_op) == sqlite_op = "EQ"

IsOpRange(sqlite_op) == sqlite_op \in {"LE", "LT", "GT", "GE"}

\* a Table::Schema::Column
Column(is_id, is_set_id, is_sorted, is_hidden) ==
  [is_id |-> is_id, is_set_id |-> is_set_id, is_sorted |-> is_sorted,
   is_hidden |-> is_hidden]

\* column `col` (counted from 0) of a schema
ColumnAt(schema, col) == schema[col + 1]

\* tables by identity: the static or runtime table, a sorted copy of it held
\* by the query cache, a table computed by a table function, or nullptr
Tbl(kind, col, gen) == [kind |-> kind, col |-> col, gen |-> gen]

NoTable == Tbl("null", 0, 0)

StaticTable == Tbl("static", 0, 0)

RuntimeTable == Tbl("runtime", 0, 0)

\* upstream_table_->Sort({Order{col, false}}) of the static or runtime table
SortedTable(col) == Tbl("sorted", col, 0)

\* the n-th table ComputeTable returned
ComputedTable(n) == Tbl("dynamic", 0, n)

\* std::nullopt of single_row_
NoRow == -1

\* std::nullopt of iterator_, and an iterator over `rows` rows of `table`
NoIterator == [held |-> FALSE, table |-> NoTable, rows |-> 0]

Iterator(table, rows) == [held |-> TRUE, table |-> table, rows |-> rows]

\* a RowMap: whether it is a range, its size and the row Get(0) returns
RowMap(is_range, size, first) ==
  [is_range |-> is_range, size |-> size, first |-> first]

\* no RowMap: QueryToRowMap was not reached
NoRowMap == RowMap(FALSE, -1, 0)

\* std::numeric_limits<uint32_t>::max(), held as -1
kInvalidArgumentIndex == -1

\* the BestIndexInfo the caller passes in: nothing written yet
FreshInfo(qc) ==
  [qc |-> qc, written |-> FALSE, estimated_cost |-> 0, estimated_rows |-> 0,
   sqlite_omit_constraint |-> [i \in 1..Len(qc.constraints) |-> FALSE],
   sqlite_omit_order_by |-> FALSE]

\* a call of the SQL side that returns `ret`
SqlReturn(name, args, ret) ==
  /\ op' = [name |-> name, args |-> args, returned |-> TRUE, ret |-> ret]
  /\ ncalls' = ncalls + 1
  /\ aborted' = aborted
  /\ UNCHANGED <<trackerVars, frameVars, historyVars, ftraceVars>>

\* a call of the SQL side that ends in PERFETTO_FATAL
SqlAbort(name, args) ==
  /\ op' = [name |-> name, args |-> args, returned |-> FALSE, ret |-> "fatal"]
  /\ ncalls' = ncalls + 1
  /\ aborted' = TRUE
  /\ UNCHANGED <<trackerVars, frameVars, historyVars, sqlVars, ftraceVars>>

----------------------------------------------------------------------------
(* DbSqliteTable: Init, BestIndex and the cost estimate *)

\* std::find_if over the constraints: the position of the first constraint
\* on column col, 0 for end()
FirstConstraintOn(cs, col) ==
  LET on == {j \in 1..Len(cs) : cs[j].column = col}
  IN  IF on = {} THEN 0 ELSE CHOOSE j \in on : \A k \in on : j <= k

\* ValidateTableFunctionArguments without the check for further constraints
ValidateFirstConstraintOnly(schema, qc) ==
  \A i \in 1..Len(schema) :
     schema[i].is_hidden =>
       LET it == FirstConstraintOn(qc.constraints, i - 1)
       IN  it # 0 /\ qc.constraints[it].op = "EQ"

\* ValidateTableFunctionArguments(name, schema, qc).ok()
ValidateTableFunctionArguments(schema, qc) ==
  \A i \in 1..Len(schema) :
     schema[i].is_hidden =>
       LET cs == qc.constraints
           it == FirstConstraintOn(cs, i - 1)
       IN  /\ it # 0
           /\ cs[it].op = "EQ"
           /\ {j \in (it + 1)..Len(cs) : cs[j].column = i - 1} = {}

\* the costs are doubles: the model holds them as integers in units of
\* 1/1000
Milli == 1000

\* log2(n) for n = 1 .. 32, in units of 1/1000 and rounded down
Log2Table ==
  <<0, 1000, 1584, 2000, 2321, 2584, 2807, 3000,
    3169, 3321, 3459, 3584, 3700, 3807, 3906, 4000,
    4087, 4169, 4247, 4321, 4392, 4459, 4523, 4584,
    4643, 4700, 4754, 4807, 4857, 4906, 4954, 5000>>

\* log2(n) of a row count n >= 1, in units of 1/1000; EstimateCost takes
\* the logarithm of no other row count, and the model gives it no value (0)
Log2(n) == IF n >= 1 THEN Log2Table[n] ELSE 0

Max(a, b) == IF a >= b THEN a ELSE b

\* constexpr double kFixedQueryCost
kFixedQueryCost == 1000

\* current_row_count / (2 * log2(current_row_count)) as a uint32_t, without
\* the std::max with 1u
EstimatedRowsByLogUnclamped(current_row_count) ==
  (current_row_count * Milli) \div (2 * Log2(current_row_count))

\* std::max(static_cast<uint32_t>(current_row_count /
\* (2 * log2(current_row_count))), 1u)
EstimatedRowsByLog(current_row_count) ==
  Max((current_row_count * Milli) \div (2 * Log2(current_row_count)), 1)

\* the loop of EstimateCost from constraint i on: the filter cost (in units
\* of 1/1000) and the row count after the last constraint
RECURSIVE EstimateFilter(_, _, _, _, _)
EstimateFilter(schema, cs, i, current_row_count, filter_cost) ==
  IF i > Len(cs) \/ current_row_count < 2
  THEN [filter_cost |-> filter_cost, rows |-> current_row_count]
  ELSE LET c == cs[i]
           col_schema == ColumnAt(schema, c.column)
           by_log == EstimatedRowsByLog(current_row_count)
       IN  IF IsOpEq(c.op) /\ col_schema.is_id
           THEN EstimateFilter(schema, cs, i + 1, 1, filter_cost + 10 * Milli)
           ELSE IF IsOpEq(c.op)
           THEN EstimateFilter(schema, cs, i + 1, by_log,
                  filter_cost + (IF Len(cs) = 1 \/ col_schema.is_sorted
                                 THEN Log2(current_row_count)
                                 ELSE current_row_count * Milli))
           ELSE IF col_schema.is_sorted /\ IsOpRange(c.op)
           THEN EstimateFilter(schema, cs, i + 1, by_log,
                  filter_cost + Log2(current_row_count))
           ELSE EstimateFilter(schema, cs, i + 1,
                  Max(current_row_count \div 2, 1),
                  filter_cost + current_row_count * Milli)

\* the loop of EstimateCost without the break: once the row count is below
\* 2, each further constraint is charged a scan of the rows left
FilterLoopChargesAll(schema, cs, row_count_) ==
  LET f == EstimateFilter(schema, cs, 1, row_count_, 0)
      charged == {k \in 1..Len(cs) :
                    EstimateFilter(schema, SubSeq(cs, 1, k - 1), 1,
                                   row_count_, 0).rows < 2}
  IN  [filter_cost |-> f.filter_cost + Cardinality(charged) * f.rows * Milli,
       rows |-> f.rows]

\* the loop of EstimateCost over qc.constraints(), entered with the row
\* count of the table and a filter cost of 0
FilterLoop(schema, cs, row_count_) ==
  EstimateFilter(schema, cs, 1, row_count_, 0)

\* EstimateCost with the sort cost taken on the row count of the table
\* in place of the row count left after filtering
EstimateCostSortsAllRows(schema, rows, qc) ==
  IF rows = 0
  THEN [cost |-> kFixedQueryCost * Milli, rows |-> 0]
  ELSE LET f == FilterLoop(schema, qc.constraints, rows)
       IN  [cost |-> kFixedQueryCost * Milli + f.filter_cost
                       + Len(qc.order_by) * rows * Log2(rows)
                       + f.rows * 2 * Milli,
            rows |-> f.rows]

\* EstimateCost(schema, row_count, qc): the QueryCost, the cost in units of
\* 1/1000
EstimateCost(schema, rows, qc) ==
  IF rows = 0
  THEN [cost |-> kFixedQueryCost * Milli, rows |-> 0]
  ELSE LET f == FilterLoop(schema, qc.constraints, rows)
           sort_cost == Len(qc.order_by) * f.rows * Log2(f.rows)
           iteration_cost == f.rows * 2 * Milli
       IN  [cost |-> kFixedQueryCost * Milli + f.filter_cost + sort_cost
                       + iteration_cost,
            rows |-> f.rows]

\* BestIndex(schema, row_count, qc, info): what it leaves in *info
BestIndexInfo(schema, rows, qc) ==
  LET cost_and_rows == EstimateCost(schema, rows, qc)
  IN  [qc |-> qc, written |-> TRUE,
       estimated_cost |-> cost_and_rows.cost,
       estimated_rows |-> cost_and_rows.rows,
       sqlite_omit_constraint |->
         [i \in 1..Len(qc.constraints) |->
            SqliteOpToFilterOp(qc.constraints[i].op) # "nullopt"],
       sqlite_omit_order_by |-> TRUE]

\* DbSqliteTable::BestIndex(qc, info) on a fresh BestIndexInfo
BestIndex(qc) ==
  LET name == "BestIndex"
      args == [qc |-> qc]
  IN
  /\ CanCall
  /\ computation # "none"
  /\ IF computation = "kTableFunction"
        /\ ~ValidateTableFunctionArguments(schema_, qc)
     THEN /\ info' = FreshInfo(qc)
          /\ SqlReturn(name, args, "SQLITE_CONSTRAINT")
          /\ UNCHANGED <<tableVars, query_cache, cursorVars,
                         filterHistoryVars>>
     ELSE IF \E i \in 1..Len(qc.constraints) :
                SqliteOpToFilterOp(qc.constraints[i].op) = "fatal"
     THEN SqlAbort(name, args)
     ELSE /\ info' = BestIndexInfo(schema_, row_count, qc)
          /\ SqlReturn(name, args, "SQLITE_OK")
          /\ UNCHANGED <<tableVars, query_cache, cursorVars,
                         filterHistoryVars>>

\* the comparator of ModifyConstraints with the id test only
ConstraintLessIdOnly(schema, a, b) ==
  ColumnAt(schema, a.column).is_id /\ ~ColumnAt(schema, b.column).is_id

\* the comparator std::sort is given in ModifyConstraints: a is ordered
\* before b
ConstraintLess(schema, a, b) ==
  LET a_col == ColumnAt(schema, a.column)
      b_col == ColumnAt(schema, b.column)
  IN  IF a_col.is_id \/ b_col.is_id
      THEN a_col.is_id /\ ~b_col.is_id
      ELSE IF a_col.is_set_id \/ b_col.is_set_id
      THEN a_col.is_set_id /\ ~b_col.is_set_id
      ELSE IF a_col.is_sorted \/ b_col.is_sorted
      THEN a_col.is_sorted /\ ~b_col.is_sorted
      ELSE FALSE

\* the results std::sort may leave in cs: every permutation of cs in which
\* no element is ordered before an earlier one (std::sort leaves the order
\* of equivalent elements unspecified)
SortOutcomes(schema, cs) ==
  LET n == Len(cs)
      perms == {p \in [1..n -> 1..n] :
                  \A i, j \in 1..n : i # j => p[i] # p[j]}
  IN  {r \in {[i \in 1..n |-> cs[p[i]]] : p \in perms} :
         \A i, j \in 1..n : i < j => ~ConstraintLess(schema, r[j], r[i])}

\* the predicate of remove_if with the test for IsOpEq left out
OrderHasAnyConstraint(cs, o) ==
  \E i \in 1..Len(cs) : cs[i].column = o.iColumn

\* the predicate of remove_if: some constraint is an equality on the
\* column of the order-by term
OrderHasEqConstraint(cs, o) ==
  \E i \in 1..Len(cs) : cs[i].column = o.iColumn /\ IsOpEq(cs[i].op)

\* pop_count: the distance from rbegin() to the last term that is
\* descending or on a column that is not sorted
PopCount(schema, ob) ==
  LET stops == {i \in 1..Len(ob) :
                  ob[i].desc \/ ~ColumnAt(schema, ob[i].iColumn).is_sorted}
  IN  IF stops = {} THEN Len(ob)
      ELSE Len(ob) - (CHOOSE i \in stops : \A k \in stops : k <= i)

\* what ModifyConstraints leaves in qc->order_by, given the constraints
PruneOrderBy(schema, cs, ob) ==
  LET kept == SelectSeq(ob, LAMBDA o : ~OrderHasEqConstraint(cs, o))
  IN  SubSeq(kept, 1, Len(kept) - PopCount(schema, kept))

\* DbSqliteTable::ModifyConstraints(qc): returns OkStatus and leaves the
\* modified constraints in *qc, recorded as the result of the call
ModifyConstraints(qc) ==
  /\ CanCall
  /\ computation # "none"
  /\ \E cs \in SortOutcomes(schema_, qc.constraints) :
       SqlReturn("ModifyConstraints", [qc |-> qc],
                 Qc(cs, PruneOrderBy(schema_, cs, qc.order_by)))
  /\ UNCHANGED sqlVars

\* the schemas of the model: an id column, a plain column and a sorted
\* column; a table function has a hidden argument column in place of the
\* sorted one
SchemaOf(c) ==
  IF c = "kTableFunction"
  THEN <<Column(TRUE, FALSE, TRUE, FALSE), Column(FALSE, FALSE, FALSE, FALSE),
         Column(FALSE, FALSE, FALSE, TRUE)>>
  ELSE <<Column(TRUE, FALSE, TRUE, FALSE), Column(FALSE, FALSE, FALSE, FALSE),
         Column(FALSE, FALSE, TRUE, FALSE)>>

\* DbSqliteTable::Init on a context of computation c in a build with or
\* without regex support; the schema has an id column, so ComputeSchema
\* returns
TableInitSchema(c, schema, regex, rows, has_cache) ==
  /\ CanCall
  /\ computation = "none"
  /\ computation' = c
  /\ schema_' = schema
  /\ regex_supported' = regex
  /\ row_count' = rows
  /\ cache_' = has_cache
  /\ SqlReturn("Init", [computation |-> c], "ok")
  /\ UNCHANGED <<query_cache, cursorVars, info, filterHistoryVars>>

\* DbSqliteTable::Init on a table with the schema of the model for c
TableInit(c, regex, rows, has_cache) ==
  TableInitSchema(c, SchemaOf(c), regex, rows, has_cache)

----------------------------------------------------------------------------
(* DbSqliteTable::Cursor: construction and constraint translation *)

\* a sqlite3_value of type SQLITE_INTEGER, SQLITE_TEXT or SQLITE_NULL
SqliteInteger(n) == [type |-> "SQLITE_INTEGER", int64 |-> n, text |-> ""]

SqliteText(s) == [type |-> "SQLITE_TEXT", int64 |-> 0, text |-> s]

SqliteNull == [type |-> "SQLITE_NULL", int64 |-> 0, text |-> ""]

\* SqliteValueToSqlValue on those three types
SqliteValueToSqlValue(sqlite_val) ==
  CASE sqlite_val.type = "SQLITE_INTEGER" ->
         [type |-> "kLong", long_value |-> sqlite_val.int64,
          string_value |-> ""]
    [] sqlite_val.type = "SQLITE_TEXT" ->
         [type |-> "kString", long_value |-> 0,
          string_value |-> sqlite_val.text]
    [] OTHER -> [type |-> "kNull", long_value |-> 0, string_value |-> ""]

\* a default-constructed SqlValue
NullSqlValue == [type |-> "kNull", long_value |-> 0, string_value |-> ""]

Constraint(col, filter_op, value) ==
  [col_idx |-> col, op |-> filter_op, value |-> value]

\* a value-initialized Constraint
DefaultConstraint == Constraint(0, "kEq", NullSqlValue)

\* regex::Regex::Create(pattern).ok(): the pattern compiles
RegexCreateOk(pattern) == pattern \notin {"(", "["}

\* the check of a Regex value without the test of its type
RegexValueOkAnyType(value) ==
  value.type = "kString" => RegexCreateOk(value.string_value)

\* the value of a Regex constraint is a string and compiles
RegexValueOk(value) ==
  value.type = "kString" /\ RegexCreateOk(value.string_value)

\* argument_index_per_column_ with no column given an argument slot
ArgumentIndexNoSlots(c, schema) ==
  [i \in 1..Len(schema) |-> kInvalidArgumentIndex]

\* argument_index_per_column_ with the hidden columns numbered from the
\* last one
ArgumentIndexFromLast(c, schema) ==
  [i \in 1..Len(schema) |->
     IF c = "kTableFunction" /\ schema[i].is_hidden
     THEN Cardinality({j \in (i + 1)..Len(schema) : schema[j].is_hidden})
     ELSE kInvalidArgumentIndex]

\* argument_index_per_column_ as the constructor fills it: the hidden
\* columns of a table function are numbered from 0 in column order
ArgumentIndexPerColumn(c, schema) ==
  [i \in 1..Len(schema) |->
     IF c = "kTableFunction" /\ schema[i].is_hidden
     THEN Cardinality({j \in 1..(i - 1) : schema[j].is_hidden})
     ELSE kInvalidArgumentIndex]

\* std::vector::resize(n)
Resize(seq, n, default) ==
  [j \in 1..n |-> IF j <= Len(seq) THEN seq[j] ELSE default]

\* DbSqliteTable::CreateCursor and the Cursor constructor
OpenCursor ==
  LET idx == ArgumentIndexPerColumn(computation, schema_)
  IN
  /\ CanCall
  /\ computation # "none"
  /\ ~cursor_open
  /\ cursor_open' = TRUE
  /\ upstream_table_' = CASE computation = "kStatic" -> StaticTable
                          [] computation = "kRuntime" -> RuntimeTable
                          [] OTHER -> NoTable
  /\ argument_index_per_column_' = idx
  /\ table_function_arguments_' =
       Resize(<< >>,
              Cardinality({i \in 1..Len(idx) : idx[i] # kInvalidArgumentIndex}),
              NullSqlValue)
  /\ cursors_created' = cursors_created + 1
  /\ SqlReturn("CreateCursor", EmptyFcn, "ok")
  /\ UNCHANGED <<tableVars, query_cache, sorted_cache_table_, dynamic_table_,
                 repeated_cache_count_, constraints_, orders_, mode_,
                 single_row_, eof_, iterator_, info, events, last_qc,
                 same_run, tables_computed, filter_map>>

\* Cursor::~Cursor: the members are destroyed, the query cache and the
\* table stay; the next cursor starts from the member defaults
CloseCursor ==
  /\ CanCall
  /\ cursor_open
  /\ cursor_open' = FALSE
  /\ upstream_table_' = NoTable
  /\ sorted_cache_table_' = NoTable
  /\ dynamic_table_' = NoTable
  /\ repeated_cache_count_' = 0
  /\ constraints_' = << >>
  /\ orders_' = << >>
  /\ table_function_arguments_' = << >>
  /\ argument_index_per_column_' = << >>
  /\ mode_' = "kSingleRow"
  /\ single_row_' = NoRow
  /\ eof_' = TRUE
  /\ iterator_' = NoIterator
  /\ events' = << >>
  /\ last_qc' = << >>
  /\ same_run' = 0
  /\ filter_map' = NoRowMap
  /\ SqlReturn("DestroyCursor", EmptyFcn, "ok")
  /\ UNCHANGED <<tableVars, query_cache, info, tables_computed,
                 cursors_created>>

\* the loop of PopulateConstraintsAndArguments from constraint i on, with
\* constraints_ = cs, constraints_pos = pos and table_function_arguments_ =
\* arguments; status is "ok", "error" (a Regex value that is no string or does
\* not compile) or "fatal"
RECURSIVE PopulateFrom(_, _, _, _, _, _)
PopulateFrom(qc, argv, i, cs, pos, arguments) ==
  IF i > Len(qc.constraints)
  THEN [status |-> "ok", constraints |-> Resize(cs, pos, DefaultConstraint),
        arguments |-> arguments]
  ELSE LET c == qc.constraints[i]
           opt_op == SqliteOpToFilterOp(c.op)
           value == SqliteValueToSqlValue(argv[i])
           argument_index == argument_index_per_column_[c.column + 1]
       IN  IF opt_op = "fatal"
           THEN [status |-> "fatal", constraints |-> cs,
                 arguments |-> arguments]
           ELSE IF opt_op = "nullopt"
           THEN PopulateFrom(qc, argv, i + 1, cs, pos, arguments)
           ELSE IF regex_supported /\ opt_op = "kRegex"
                   /\ ~RegexValueOk(value)
           THEN [status |-> "error", constraints |-> cs,
                 arguments |-> arguments]
           ELSE IF argument_index = kInvalidArgumentIndex
           THEN PopulateFrom(qc, argv, i + 1,
                             [cs EXCEPT ![pos + 1] =
                                Constraint(c.column, opt_op, value)],
                             pos + 1, arguments)
           ELSE PopulateFrom(qc, argv, i + 1, cs, pos,
                             [arguments EXCEPT ![argument_index + 1] = value])

\* PopulateConstraintsAndArguments(qc, argv): its status and what it leaves
\* in constraints_ and table_function_arguments_
PopulateConstraintsAndArguments(qc, argv) ==
  PopulateFrom(qc, argv, 1,
               Resize(constraints_, Len(qc.constraints), DefaultConstraint),
               0, table_function_arguments_)

\* PopulateOrderBys(qc): what it leaves in orders_
PopulateOrderBys(qc) ==
  [i \in 1..Len(qc.order_by) |->
     [col_idx |-> qc.order_by[i].iColumn, desc |-> qc.order_by[i].desc]]

----------------------------------------------------------------------------
(* DbSqliteTable::Cursor: the sort cache and Filter *)

\* constexpr uint32_t kRepeatedThreshold
kRepeatedThreshold == 3

\* a call Filter makes, or an assignment to one of its table members
Event(call, table, constraints, arguments) ==
  [call |-> call, table |-> table, constraints |-> constraints,
   arguments |-> arguments]

\* the key of a QueryCache entry
CacheKey(table, cs) == [table |-> table, constraints |-> cs]

\* QueryCache::GetIfCached(table, cs): the sorted copy, or nullptr
GetIfCached(cache, table, cs) ==
  IF CacheKey(table, cs) \in cache THEN SortedTable(cs[1].column)
  ELSE NoTable

\* QueryCache::GetOrCache(table, cs, fn): the cache after the call
CacheAfterGetOrCache(cache, table, cs) == cache \cup {CacheKey(table, cs)}

\* the test of the counter as the comment above it words it ("exactly the
\* third time"): the counter compared after the increment
CacheAttemptDueAfterIncrement ==
  sorted_cache_table_ = NoTable
    /\ repeated_cache_count_ + 1 = kRepeatedThreshold

\* !(sorted_cache_table_ || repeated_cache_count_++ != kRepeatedThreshold):
\* the counter is compared before the increment
CacheAttemptDue ==
  sorted_cache_table_ = NoTable /\ repeated_cache_count_ = kRepeatedThreshold

\* the tests of the constraint set without the test of is_sorted
CacheableSingleEq(cs) == Len(cs) = 1 /\ IsOpEq(cs[1].op)

\* the constraint set is one TryCacheCreateSortedTable caches a sorted
\* table for: one constraint, an equality, on a column that is not sorted
CacheableConstraints(cs) ==
  /\ Len(cs) = 1
  /\ IsOpEq(cs[1].op)
  /\ ~ColumnAt(schema_, cs[1].column).is_sorted

\* the kDifferent branch with the counter reset and the latched table kept
ResetCountOnly(cs) ==
  [sorted |-> sorted_cache_table_, count |-> 0, cache |-> query_cache,
   events |-> << >>]

\* a kDifferent branch that runs the sort builder: GetOrCache in the place
\* of GetIfCached
ResetAndBuild(cs) ==
  [sorted |-> SortedTable(cs[1].column), count |-> 0,
   cache |-> CacheAfterGetOrCache(query_cache, upstream_table_, cs),
   events |-> <<Event("GetOrCache", upstream_table_, << >>, << >>),
                Event("SetSortedCacheTable", SortedTable(cs[1].column),
                      << >>, << >>)>>]

\* the kDifferent branch of TryCacheCreateSortedTable: the counter is reset
\* and the cache's table for the new constraints, if any, is latched
ResetSortPolicy(cs) ==
  [sorted |-> GetIfCached(query_cache, upstream_table_, cs),
   count |-> 0, cache |-> query_cache,
   events |-> <<Event("GetIfCached", upstream_table_, << >>, << >>),
                Event("SetSortedCacheTable",
                      GetIfCached(query_cache, upstream_table_, cs),
                      << >>, << >>)>>]

\* a counter that stops at kRepeatedThreshold
RepeatedCountSaturating ==
  IF sorted_cache_table_ = NoTable
       /\ repeated_cache_count_ < kRepeatedThreshold
  THEN repeated_cache_count_ + 1
  ELSE repeated_cache_count_

\* repeated_cache_count_ after the condition
\* sorted_cache_table_ || repeated_cache_count_++ != kRepeatedThreshold:
\* the increment is not evaluated when a sorted table is latched
RepeatedCountAfter ==
  IF sorted_cache_table_ = NoTable
  THEN repeated_cache_count_ + 1
  ELSE repeated_cache_count_

\* TryCacheCreateSortedTable(qc, history): what it leaves in
\* sorted_cache_table_, repeated_cache_count_ and the query cache, and the
\* calls it makes
TryCacheCreateSortedTable(qc, history) ==
  LET cs == qc.constraints
      same == [sorted |-> sorted_cache_table_,
               count |-> repeated_cache_count_,
               cache |-> query_cache, events |-> << >>]
      counted == [same EXCEPT !.count = RepeatedCountAfter]
  IN  IF ~cache_ THEN same
      ELSE IF history = "kDifferent" THEN ResetSortPolicy(cs)
      ELSE IF ~CacheAttemptDue THEN counted
      ELSE IF ~CacheableConstraints(cs) THEN counted
      ELSE [sorted |->
              GetIfCached(CacheAfterGetOrCache(query_cache, upstream_table_,
                                               cs),
                          upstream_table_, cs),
            count |-> RepeatedCountAfter,
            cache |-> CacheAfterGetOrCache(query_cache, upstream_table_, cs),
            events |-> <<Event("GetOrCache", upstream_table_, << >>, << >>),
                         Event("SetSortedCacheTable",
                               SortedTable(cs[1].column), << >>, << >>)>>]

\* QueryCache::GetOrCache called through another cursor of the same table
OtherCursorGetOrCache(cs) ==
  /\ CanCall
  /\ cursor_open
  /\ computation \in {"kStatic", "kRuntime"}
  /\ query_cache' =
       CacheAfterGetOrCache(query_cache, upstream_table_, cs)
  /\ SqlReturn("OtherCursorGetOrCache", [constraints |-> cs], "ok")
  /\ UNCHANGED <<tableVars, cursorVars, info, filterHistoryVars>>

\* the QueryCache evicts the entry of key k
QueryCacheEvict(k) ==
  /\ CanCall
  /\ k \in query_cache
  /\ query_cache' = query_cache \ {k}
  /\ SqlReturn("QueryCacheEvict", [key |-> k], "ok")
  /\ UNCHANGED <<tableVars, cursorVars, info, filterHistoryVars>>

\* the FilterHistory the caller passes: kSame iff the constraints are those
\* of the cursor's previous Filter
FilterHistoryOf(qc) == IF last_qc = <<qc>> THEN "kSame" ELSE "kDifferent"

\* iterator_ after a Filter that forgets to clear it
IteratorKept == iterator_

\* iterator_ = std::nullopt
IteratorCleared == NoIterator

\* the fast-path test without IsRange()
IsSingleRowAnyShape(rm) == rm.size <= 1

\* filter_map.IsRange() && filter_map.size() <= 1
IsSingleRowRange(rm) == rm.is_range /\ rm.size <= 1

\* the row maps QueryToRowMap may return: a range of 0, 1 or 2 rows, or a
\* row map that is no range
RowMaps ==
  {[is_range |-> TRUE, size |-> 0, first |-> 0],
   [is_range |-> TRUE, size |-> 1, first |-> 0],
   [is_range |-> TRUE, size |-> 2, first |-> 0],
   [is_range |-> FALSE, size |-> 0, first |-> 0]}

\* the end of Filter: QueryToRowMap on the source table returned rm
FilterRows(source, it, rm) ==
  IF IsSingleRowRange(rm)
  THEN /\ mode_' = "kSingleRow"
       /\ single_row_' = IF rm.size = 1 THEN rm.first ELSE NoRow
       /\ eof_' = (rm.size # 1)
       /\ iterator_' = it
  ELSE /\ mode_' = "kTable"
       /\ single_row_' = single_row_
       /\ iterator_' = Iterator(source, rm.size)
       /\ eof_' = (rm.size = 0)

\* the calls at the end of Filter
FilterRowsEvents(source, cs, rm) ==
  IF IsSingleRowRange(rm)
  THEN <<Event("QueryToRowMap", source, cs, << >>)>>
  ELSE <<Event("QueryToRowMap", source, cs, << >>),
         Event("ApplyAndIterateRows", source, << >>, << >>)>>

\* Cursor::Filter(qc, argv, history); QueryToRowMap returns rm, and
\* ComputeTable of a table function succeeds iff compute_ok
Filter(qc, argv, rm, compute_ok) ==
  LET history == FilterHistoryOf(qc)
      name == "Filter"
      args == [qc |-> qc, argv |-> argv, history |-> history]
      it == IteratorCleared
      reset == IF it.held THEN << >>
               ELSE <<Event("ResetIterator", iterator_.table, << >>, << >>)>>
      p == PopulateConstraintsAndArguments(qc, argv)
      t == TryCacheCreateSortedTable(qc, history)
      source == IF t.sorted # NoTable THEN t.sorted ELSE upstream_table_
      computed == ComputedTable(tables_computed + 1)
      compute == <<Event("ComputeTable", NoTable, << >>, p.arguments)>>
  IN
  /\ CanCall
  /\ cursor_open
  /\ Len(argv) = Len(qc.constraints)
  /\ IF p.status = "fatal" THEN SqlAbort(name, args)
     ELSE
     /\ last_qc' = <<qc>>
     /\ same_run' = IF history = "kSame" THEN same_run + 1 ELSE 0
     /\ constraints_' = p.constraints
     /\ table_function_arguments_' = p.arguments
     /\ UNCHANGED <<tableVars, cursor_open, argument_index_per_column_, info,
                    cursors_created>>
     /\ IF p.status = "error"
        THEN /\ iterator_' = it
             /\ events' = reset
             /\ filter_map' = NoRowMap
             /\ SqlReturn(name, args, "error")
             /\ UNCHANGED <<query_cache, upstream_table_, sorted_cache_table_,
                            dynamic_table_, repeated_cache_count_, orders_,
                            mode_, single_row_, eof_, tables_computed>>
        ELSE
        /\ orders_' = PopulateOrderBys(qc)
        /\ IF computation = "kTableFunction"
           THEN IF ~compute_ok
                THEN /\ iterator_' = it
                     /\ events' = reset \o compute
                     /\ filter_map' = NoRowMap
                     /\ SqlReturn(name, args, "error")
                     /\ UNCHANGED <<query_cache, upstream_table_,
                                    sorted_cache_table_, dynamic_table_,
                                    repeated_cache_count_, mode_, single_row_,
                                    eof_, tables_computed>>
                ELSE /\ dynamic_table_' = computed
                     /\ upstream_table_' = computed
                     /\ tables_computed' = tables_computed + 1
                     /\ filter_map' = rm
                     /\ FilterRows(IF sorted_cache_table_ # NoTable
                                   THEN sorted_cache_table_ ELSE computed,
                                   it, rm)
                     /\ events' =
                          reset \o compute
                            \o <<Event("SetDynamicTable", computed, << >>,
                                       << >>)>>
                            \o FilterRowsEvents(
                                 IF sorted_cache_table_ # NoTable
                                 THEN sorted_cache_table_ ELSE computed,
                                 p.constraints, rm)
                     /\ SqlReturn(name, args, "ok")
                     /\ UNCHANGED <<query_cache, sorted_cache_table_,
                                    repeated_cache_count_>>
           ELSE /\ sorted_cache_table_' = t.sorted
                /\ repeated_cache_count_' = t.count
                /\ query_cache' = t.cache
                /\ filter_map' = rm
                /\ FilterRows(source, it, rm)
                /\ events' = reset \o t.events
                               \o FilterRowsEvents(source, p.constraints, rm)
                /\ SqlReturn(name, args, "ok")
                /\ UNCHANGED <<upstream_table_, dynamic_table_,
                               tables_computed>>

----------------------------------------------------------------------------
(* FtraceModule: the last ftrace event id of each cpu *)

\* a uint32_t is held as the 32-bit two's complement integer with the same
\* bits: 2^31 .. 2^32 - 1 are the negative numbers, 2^32 - 1 is -1.
\* static_cast<uint32_t>(-1), the value that stands for no event id
NoFtraceEventId == -1

\* cpu + 1 in uint32_t arithmetic: 2^32 - 1 + 1 is 0
Uint32PlusOne(n) == IF n = 2147483647 THEN (-2147483647) - 1 ELSE n + 1

\* cpu >= size for a uint32_t cpu and a size below 2^31
Uint32AtLeast(n, size) == n < 0 \/ n >= size

\* std::optional<uint32_t>
NullOpt == [has_value |-> FALSE, value |-> 0]

Some(v) == [has_value |-> TRUE, value |-> v]

\* what GetLastFtraceEventId(cpu) returns
GetLastFtraceEventIdResult(cpu) ==
  IF Uint32AtLeast(cpu, Len(last_ftrace_event_ids_)) THEN NullOpt
  ELSE IF last_ftrace_event_ids_[cpu + 1] = NoFtraceEventId THEN NullOpt
  ELSE Some(last_ftrace_event_ids_[cpu + 1])

\* a call of FtraceModule
FtraceReturn(name, args, ret) ==
  /\ op' = [name |-> name, args |-> args, returned |-> TRUE, ret |-> ret]
  /\ ncalls' = ncalls + 1
  /\ aborted' = aborted
  /\ UNCHANGED <<trackerVars, frameVars, historyVars, sqlVars>>

\* FtraceModule::SetLastFtraceEventId(cpu, id): resize(cpu + 1, -1) grows or
\* shrinks the vector, then element cpu is written. With cpu = 2^32 - 1 the
\* vector is resized to 0 elements and the write is outside it, which is
\* undefined: the call is recorded as "out_of_bounds" and either the
\* process dies or the call returns with the vector as resize left it
SetLastFtraceEventId(cpu, id) ==
  LET name == "SetLastFtraceEventId"
      args == [cpu |-> cpu, id |-> id]
      resized == Resize(last_ftrace_event_ids_, Uint32PlusOne(cpu),
                        NoFtraceEventId)
  IN
  /\ CanCall
  /\ cpus_set' = cpus_set \cup {cpu}
  /\ IF Uint32AtLeast(cpu, Len(resized))
     THEN /\ last_ftrace_event_ids_' = resized
          /\ \/ FtraceReturn(name, args, "out_of_bounds")
             \/ /\ op' = [name |-> name, args |-> args, returned |-> FALSE,
                           ret |-> "out_of_bounds"]
                /\ ncalls' = ncalls + 1
                /\ aborted' = TRUE
                /\ UNCHANGED <<trackerVars, frameVars, historyVars, sqlVars>>
     ELSE /\ last_ftrace_event_ids_' = [resized EXCEPT ![cpu + 1] = id]
          /\ FtraceReturn(name, args, "ok")

\* FtraceModule::GetLastFtraceEventId(cpu)
GetLastFtraceEventId(cpu) ==
  /\ CanCall
  /\ FtraceReturn("GetLastFtraceEventId", [cpu |-> cpu],
                  GetLastFtraceEventIdResult(cpu))
  /\ UNCHANGED ftraceVars

----------------------------------------------------------------------------
(* Initial state and specifications *)

Init ==
  /\ mappings_by_id = EmptyFcn
  /\ interned_mappings = EmptyFcn
  /\ mappings_by_name_and_build_id = EmptyFcn
  /\ user_memory = EmptyFcn
  /\ kernel_modules = EmptyFcn
  /\ kernel = NoMapping
  /\ jit_delegates = EmptyFcn
  /\ interned_frames = EmptyFcn
  /\ frames_by_rel_pc = EmptyFcn
  /\ string_pool = << >>
  /\ frame_table = << >>
  /\ delegate_frames = EmptyFcn
  /\ frames_created = << >>
  /\ aborted = FALSE
  /\ op = [name |-> "none", args |-> EmptyFcn, returned |-> TRUE,
           ret |-> NoMapping]
  /\ ncalls = 0
  /\ first_interned = EmptyFcn
  /\ frame_calls = EmptyFcn
  /\ computation = "none"
  /\ schema_ = << >>
  /\ regex_supported = FALSE
  /\ row_count = 0
  /\ cache_ = FALSE
  /\ query_cache = {}
  /\ cursor_open = FALSE
  /\ upstream_table_ = NoTable
  /\ sorted_cache_table_ = NoTable
  /\ dynamic_table_ = NoTable
  /\ repeated_cache_count_ = 0
  /\ constraints_ = << >>
  /\ orders_ = << >>
  /\ table_function_arguments_ = << >>
  /\ argument_index_per_column_ = << >>
  /\ mode_ = "kSingleRow"
  /\ single_row_ = NoRow
  /\ eof_ = TRUE
  /\ iterator_ = NoIterator
  /\ info = FreshInfo(EmptyQc)
  /\ events = << >>
  /\ last_qc = << >>
  /\ same_run = 0
  /\ tables_computed = 0
  /\ filter_map = NoRowMap
  /\ cursors_created = 0
  /\ last_ftrace_event_ids_ = << >>
  /\ cpus_set = {}

\* inputs of the address-range specifications: every range, one name
RangeParams == {Params(r, 0, 0, 0, "libjit.so", NoBuildId) : r \in Ranges}

\* user mappings, JIT ranges and address lookups of two processes
Next ==
  \/ \E upid \in Pids, params \in RangeParams :
       ncalls < MaxCalls /\ CreateUserMemoryMapping(upid, params)
  \/ \E upid \in Pids, r \in Ranges, d \in Delegates :
       ncalls < MaxCalls /\ AddJitRange(upid, r, d)
  \/ \E upid \in Pids, a \in 0..MaxAddr :
       ncalls < MaxCalls /\ FindUserMappingForAddress(upid, a)

Spec == Init /\ [][Next]_vars

\* inputs of the kernel specification
KernelNames ==
  {"[kernel.kallsyms]", "[kernel.kallsyms]_stext", "/kernel", "nf_tables.ko"}

KernelParams ==
  {Params(r, 0, 0, 0, n, NoBuildId) : r \in Ranges, n \in KernelNames}

\* user mappings, kernel modules and cores, and JIT ranges side by side
RangeKernelParams ==
  {Params(r, 0, 0, 0, n, NoBuildId) : r \in Ranges,
                                     n \in {"/kernel", "nf_tables.ko"}}

NextRanges ==
  \/ \E upid \in Pids, params \in RangeParams :
       ncalls < MaxCalls /\ CreateUserMemoryMapping(upid, params)
  \/ \E params \in RangeKernelParams :
       ncalls < MaxCalls /\ CreateKernelMemoryMapping(params)
  \/ \E upid \in Pids, r \in Ranges :
       ncalls < MaxCalls /\ AddJitRange(upid, r, "D1")

SpecRanges == Init /\ [][NextRanges]_vars

\* kernel mappings under every kernel name
NextKernel ==
  \/ \E params \in KernelParams :
       ncalls < MaxCalls /\ CreateKernelMemoryMapping(params)

SpecKernel == Init /\ [][NextKernel]_vars

\* kernel cores and modules, the default kernel mapping and address lookups
KernelFindParams ==
  {Params(r, 0, 0, 0, n, NoBuildId) :
     r \in Ranges, n \in {"[kernel.kallsyms]", "nf_tables.ko"}}

NextKernelFind ==
  \/ \E params \in KernelFindParams :
       ncalls < MaxCalls /\ CreateKernelMemoryMapping(params)
  \/ ncalls < MaxCalls /\ GetOrCreateKernelMemoryMappingDefault
  \/ \E a \in 0..MaxAddr :
       ncalls < MaxCalls /\ FindKernelMappingForAddress(a)

SpecKernelFind == Init /\ [][NextKernelFind]_vars

\* kernel cores under both core names with every range and with the range
\* [0, 0) of the default core, and kernel modules
StickyParams ==
  {Params(r, 0, 0, Uint64(0), n, NoBuildId) :
     r \in Ranges \cup {AddressRange(0, 0)},
     n \in {"[kernel.kallsyms]", "/kernel"}}
    \cup {Params(r, 0, 0, Uint64(0), "nf_tables.ko", NoBuildId) :
            r \in Ranges}

\* the default kernel mapping among kernel cores, modules and lookups
NextSticky ==
  \/ \E params \in StickyParams :
       ncalls < MaxCalls /\ CreateKernelMemoryMapping(params)
  \/ ncalls < MaxCalls /\ GetOrCreateKernelMemoryMappingDefault
  \/ \E a \in 0..MaxAddr :
       ncalls < MaxCalls /\ FindKernelMappingForAddress(a)

SpecSticky == Init /\ [][NextSticky]_vars

\* inputs of the index specification: two ranges, two names, with and
\* without a build id
IndexRanges == {AddressRange(0, 1), AddressRange(1, 2)}

BuildIds == {NoBuildId, <<"b1">>}

IndexParams ==
  {Params(r, 0, 0, 0, n, b) :
     r \in IndexRanges, n \in {"/kernel", "libjit.so"}, b \in BuildIds}

NextIndex ==
  \/ \E params \in IndexParams :
       ncalls < MaxCalls /\ InternMemoryMapping(params)
  \/ \E params \in IndexParams :
       ncalls < MaxCalls /\ CreateUserMemoryMapping(7, params)
  \/ \E params \in IndexParams :
       ncalls < MaxCalls /\ CreateKernelMemoryMapping(params)
  \/ \E n \in {"/kernel", "libjit.so"}, b \in BuildIds :
       ncalls < MaxCalls /\ FindMappings(n, b)

SpecIndex == Init /\ [][NextIndex]_vars

\* frame interning on user mappings of one process, with JIT ranges
RelPcs == {16}

FunctionNames == {"f", "g"}

NextFrames ==
  \/ \E params \in RangeParams :
       ncalls < MaxFrameCalls /\ CreateUserMemoryMapping(7, params)
  \/ \E r \in Ranges, d \in Delegates :
       ncalls < MaxFrameCalls /\ AddJitRange(7, r, d)
  \/ \E id \in DOMAIN mappings_by_id, pc \in RelPcs, n \in FunctionNames :
       ncalls < MaxFrameCalls /\ InternFrame(id, pc, n)

SpecFrames == Init /\ [][NextFrames]_vars

Computations == {"kStatic", "kRuntime", "kTableFunction"}

\* row counts of the tables: the empty table, one row and sixteen rows
RowCounts == {0, 1, 16}

\* BestIndex under every operator: one constraint of any operator on any
\* column, or two constraints of three operators
IndexOps == {"EQ", "GT", "LIKE"}

IndexOrders == {<< >>, <<[iColumn |-> 1, desc |-> FALSE]>>}

IndexQcs ==
  {Qc(<< >>, o) : o \in IndexOrders}
    \cup {Qc(<<[column |-> c, op |-> p]>>, o) :
            c \in 0..2, p \in SqliteOps, o \in IndexOrders}
    \cup {Qc(<<[column |-> c, op |-> p], [column |-> d, op |-> q]>>, << >>) :
            c \in 0..2, p \in IndexOps, d \in 0..2, q \in IndexOps}

NextBestIndex ==
  \/ \E c \in Computations, regex \in BOOLEAN, rows \in RowCounts :
       ncalls < MaxIndexCalls /\ TableInit(c, regex, rows, TRUE)
  \/ \E qc \in IndexQcs :
       ncalls < MaxIndexCalls /\ BestIndex(qc)

SpecBestIndex == Init /\ [][NextBestIndex]_vars

\* the values passed to Filter: an integer, a pattern that compiles and one
\* that does not
FilterValues == {SqliteInteger(5), SqliteText("a.*"), SqliteText("(")}

\* the constraint sets passed to Filter: column 1 is a plain column, column
\* 2 the hidden argument column of the table function
FilterConstraints ==
  {<<[column |-> 1, op |-> "EQ"]>>,
   <<[column |-> 1, op |-> "REGEXP"]>>,
   <<[column |-> 2, op |-> "EQ"]>>,
   <<[column |-> 2, op |-> "EQ"], [column |-> 0, op |-> "GT"]>>,
   <<[column |-> 2, op |-> "EQ"], [column |-> 1, op |-> "REGEXP"]>>,
   <<[column |-> 1, op |-> "LIKE"], [column |-> 1, op |-> "REGEXP"]>>}

FilterQcs == {Qc(cs, << >>) : cs \in FilterConstraints}

\* the argv of a constraint set: one value per constraint
Argvs(cs) ==
  IF Len(cs) = 1 THEN {<<v>> : v \in FilterValues}
  ELSE {<<SqliteInteger(5), v>> : v \in FilterValues}

\* one cursor of a table of each computation: BestIndex and Filter; SQLite
\* passes a table function only constraints that BestIndex accepts
NextFilter ==
  \/ \E c \in Computations, regex \in BOOLEAN :
       ncalls < MaxFilterCalls /\ TableInit(c, regex, 16, TRUE)
  \/ ncalls < MaxFilterCalls /\ OpenCursor
  \/ \E qc \in FilterQcs :
       ncalls < MaxFilterCalls /\ BestIndex(qc)
  \/ \E qc \in FilterQcs, rm \in RowMaps, compute_ok \in BOOLEAN :
       \E argv \in Argvs(qc.constraints) :
         /\ ncalls < MaxFilterCalls
         /\ IF computation = "kTableFunction"
            THEN ValidateTableFunctionArguments(schema_, qc)
            ELSE compute_ok
         /\ Filter(qc, argv, rm, compute_ok)

SpecFilter == Init /\ [][NextFilter]_vars

\* the constraint sets of the sort-cache specification: an Eq on the plain
\* column 1 (the only one the cache takes), an Eq on the sorted column 2, a
\* Gt, and two constraints
SortConstraints ==
  {<<[column |-> 1, op |-> "EQ"]>>,
   <<[column |-> 2, op |-> "EQ"]>>,
   <<[column |-> 1, op |-> "GT"]>>,
   <<[column |-> 1, op |-> "EQ"], [column |-> 0, op |-> "GT"]>>}

\* the row map of the sort-cache specification: a range of two rows
SortRowMap == [is_range |-> TRUE, size |-> 2, first |-> 0]

\* one cursor of a Static or Runtime table, with or without a query cache,
\* under repeated Filter calls
NextSortCache ==
  \/ \E c \in {"kStatic", "kRuntime"}, has_cache \in BOOLEAN :
       ncalls < MaxSortCalls /\ TableInit(c, FALSE, 16, has_cache)
  \/ ncalls < MaxSortCalls /\ OpenCursor
  \/ \E cs \in SortConstraints :
       /\ ncalls < MaxSortCalls
       /\ Filter(Qc(cs, << >>), [i \in 1..Len(cs) |-> SqliteInteger(5)],
                 SortRowMap, TRUE)
  \/ ncalls < MaxSortCalls
       /\ OtherCursorGetOrCache(<<[column |-> 1, op |-> "EQ"]>>)

SpecSortCache == Init /\ [][NextSortCache]_vars

\* every shape of RowMap: a range or not, of 0 to 2 rows, with row 0 or row
\* 3 first
AllRowMaps == {RowMap(r, n, f) : r \in BOOLEAN, n \in 0..2, f \in {0, 3}}

\* one cursor of a table of each computation, filtered by an Eq on column 2
\* under every shape of row map
NextRowMap ==
  \/ \E c \in Computations :
       ncalls < MaxRowMapCalls /\ TableInit(c, FALSE, 16, TRUE)
  \/ ncalls < MaxRowMapCalls /\ OpenCursor
  \/ \E rm \in AllRowMaps, compute_ok \in BOOLEAN :
       /\ ncalls < MaxRowMapCalls
       /\ computation = "kTableFunction" \/ compute_ok
       /\ Filter(Qc(<<[column |-> 2, op |-> "EQ"]>>, << >>),
                 <<SqliteInteger(5)>>, rm, compute_ok)

SpecRowMap == Init /\ [][NextRowMap]_vars

\* a table function with two hidden argument columns, 1 and 3, around the
\* plain column 2
RoutingSchema ==
  <<Column(TRUE, FALSE, TRUE, FALSE), Column(FALSE, FALSE, FALSE, TRUE),
    Column(FALSE, FALSE, FALSE, FALSE), Column(FALSE, FALSE, FALSE, TRUE)>>

\* constraint sets of a table function: the hidden columns in either order,
\* between constraints on visible columns, one of them left to SQLite
RoutingConstraints ==
  {<<[column |-> 2, op |-> "EQ"], [column |-> 0, op |-> "GT"]>>,
   <<[column |-> 3, op |-> "EQ"], [column |-> 0, op |-> "GT"],
     [column |-> 1, op |-> "EQ"]>>,
   <<[column |-> 1, op |-> "EQ"], [column |-> 3, op |-> "EQ"],
     [column |-> 2, op |-> "NE"], [column |-> 0, op |-> "GT"]>>,
   <<[column |-> 3, op |-> "EQ"], [column |-> 2, op |-> "LIKE"],
     [column |-> 1, op |-> "EQ"], [column |-> 0, op |-> "GT"]>>,
   <<[column |-> 0, op |-> "GT"], [column |-> 3, op |-> "EQ"],
     [column |-> 0, op |-> "LT"], [column |-> 1, op |-> "EQ"]>>}

\* the values of the constraints, all different
RoutingValues == {<<5, 10, 7, 9>>, <<6, 11, 8, 12>>}

\* one cursor of a table function with one or with two hidden columns; SQLite
\* passes only constraints that BestIndex accepts
NextRouting ==
  \/ \E schema \in {SchemaOf("kTableFunction"), RoutingSchema} :
       /\ ncalls < MaxRoutingCalls
       /\ TableInitSchema("kTableFunction", schema, FALSE, 16, TRUE)
  \/ ncalls < MaxRoutingCalls /\ OpenCursor
  \/ \E cs \in RoutingConstraints, v \in RoutingValues,
        rm \in {RowMap(TRUE, 1, 0), RowMap(TRUE, 2, 0)},
        compute_ok \in BOOLEAN :
       /\ ncalls < MaxRoutingCalls
       /\ \A i \in 1..Len(cs) : cs[i].column < Len(schema_)
       /\ ValidateTableFunctionArguments(schema_, Qc(cs, << >>))
       /\ Filter(Qc(cs, << >>), [i \in 1..Len(cs) |-> SqliteInteger(v[i])],
                 rm, compute_ok)

SpecRouting == Init /\ [][NextRouting]_vars

\* the sequences over S of length at most n
SeqsUpTo(S, n) == UNION {[1..k -> S] : k \in 0..n}

\* a table with an id column, a set-id column, a sorted column and a plain
\* column
PlannerSchema ==
  <<Column(TRUE, FALSE, TRUE, FALSE), Column(FALSE, TRUE, TRUE, FALSE),
    Column(FALSE, FALSE, TRUE, FALSE), Column(FALSE, FALSE, FALSE, FALSE)>>

\* constraints on every column, two of them on the sorted and on the plain
\* column
PlanConstraints ==
  {[column |-> 0, op |-> "EQ"], [column |-> 1, op |-> "GT"],
   [column |-> 2, op |-> "EQ"], [column |-> 2, op |-> "GT"],
   [column |-> 3, op |-> "EQ"], [column |-> 3, op |-> "GT"]}

\* ModifyConstraints under every sequence of constraints, once per table:
\* the function reads the schema and writes nothing, so that a second call
\* in a row starts where the first did
NextPlanSort ==
  \/ ncalls < MaxPlanCalls
       /\ TableInitSchema("kStatic", PlannerSchema, FALSE, 16, TRUE)
  \/ \E cs \in SeqsUpTo(PlanConstraints, MaxPlanConstraints),
        ob \in {<< >>, <<[iColumn |-> 2, desc |-> FALSE]>>} :
       /\ ncalls < MaxPlanCalls /\ op.name = "Init"
       /\ ModifyConstraints(Qc(cs, ob))

SpecPlanSort == Init /\ [][NextPlanSort]_vars

\* order-by terms: ascending on every column, descending on a sorted one
PlanOrders ==
  {[iColumn |-> 0, desc |-> FALSE], [iColumn |-> 1, desc |-> FALSE],
   [iColumn |-> 2, desc |-> FALSE], [iColumn |-> 2, desc |-> TRUE],
   [iColumn |-> 3, desc |-> FALSE]}

\* constraint sets beside the order-by terms: none, an equality or a range
\* on the sorted column, and an equality on the plain column before a range
\* on the set-id column
PlanOrderConstraints ==
  {<< >>, <<[column |-> 2, op |-> "EQ"]>>, <<[column |-> 2, op |-> "GT"]>>,
   <<[column |-> 3, op |-> "EQ"], [column |-> 1, op |-> "GT"]>>}

\* ModifyConstraints under every sequence of order-by terms, once per table
NextPlanOrders ==
  \/ ncalls < MaxPlanCalls
       /\ TableInitSchema("kStatic", PlannerSchema, FALSE, 16, TRUE)
  \/ \E cs \in PlanOrderConstraints,
        ob \in SeqsUpTo(PlanOrders, MaxPlanOrders) :
       /\ ncalls < MaxPlanCalls /\ op.name = "Init"
       /\ ModifyConstraints(Qc(cs, ob))

SpecPlanOrders == Init /\ [][NextPlanOrders]_vars

\* constraints of the cost specification: an equality on the id column, on
\* the sorted column and on the plain column, a range on the sorted column
\* and on the plain column
CostConstraints ==
  {[column |-> 0, op |-> "EQ"], [column |-> 2, op |-> "EQ"],
   [column |-> 3, op |-> "EQ"], [column |-> 2, op |-> "GT"],
   [column |-> 3, op |-> "GT"]}

\* none, one or two order-by terms
CostOrders ==
  {<< >>, <<[iColumn |-> 3, desc |-> FALSE]>>,
   <<[iColumn |-> 3, desc |-> FALSE], [iColumn |-> 2, desc |-> TRUE]>>}

\* BestIndex on tables of every row count up to MaxRows, once per table:
\* BestIndex writes nothing of the table
NextCost ==
  \/ \E rows \in 0..MaxRows :
       /\ ncalls < MaxCostCalls
       /\ TableInitSchema("kStatic", PlannerSchema, FALSE, rows, TRUE)
  \/ \E cs \in SeqsUpTo(CostConstraints, MaxCostConstraints),
        ob \in CostOrders :
       /\ ncalls < MaxCostCalls /\ op.name = "Init"
       /\ BestIndex(Qc(cs, ob))

SpecCost == Init /\ [][NextCost]_vars

\* a constraint set with its values
FilterInput(cs, argv) == [cs |-> cs, argv |-> argv]

\* the Filter calls of the sort-policy specification: an equality on the
\* plain column 1 and on column 2 (sorted, or the hidden argument of a table
\* function), each alone and before a range on the id column, and a Regex
\* on column 1 with a pattern that does not compile and one that does
PolicyFilters ==
  {FilterInput(<<[column |-> 1, op |-> "EQ"]>>, <<SqliteInteger(5)>>),
   FilterInput(<<[column |-> 2, op |-> "EQ"]>>, <<SqliteInteger(5)>>),
   FilterInput(<<[column |-> 1, op |-> "EQ"], [column |-> 0, op |-> "GT"]>>,
               <<SqliteInteger(5), SqliteInteger(5)>>),
   FilterInput(<<[column |-> 2, op |-> "EQ"], [column |-> 0, op |-> "GT"]>>,
               <<SqliteInteger(5), SqliteInteger(5)>>),
   FilterInput(<<[column |-> 1, op |-> "REGEXP"]>>, <<SqliteText("(")>>),
   FilterInput(<<[column |-> 1, op |-> "REGEXP"]>>, <<SqliteText("a.*")>>)}

\* one cursor of a table of each computation, with or without a query
\* cache, in a build with or without regex, under repeated Filter calls
NextSortPolicy ==
  \/ \E c \in Computations, regex \in BOOLEAN, has_cache \in BOOLEAN :
       ncalls < MaxPolicyCalls /\ TableInit(c, regex, 16, has_cache)
  \/ ncalls < MaxPolicyCalls /\ OpenCursor
  \/ \E f \in PolicyFilters :
       /\ ncalls < MaxPolicyCalls
       /\ computation = "kTableFunction"
            => ValidateTableFunctionArguments(schema_, Qc(f.cs, << >>))
       /\ Filter(Qc(f.cs, << >>), f.argv, SortRowMap, TRUE)
  \/ ncalls < MaxPolicyCalls
       /\ OtherCursorGetOrCache(<<[column |-> 1, op |-> "EQ"]>>)

SpecSortPolicy == Init /\ [][NextSortPolicy]_vars

\* the Filter calls of the cache-sharing specification
SharingFilters ==
  {FilterInput(<<[column |-> 1, op |-> "EQ"]>>, <<SqliteInteger(5)>>),
   FilterInput(<<[column |-> 1, op |-> "GT"]>>, <<SqliteInteger(5)>>)}

\* the cursors of one Static table, one after the other, beside another
\* cursor of the table and a query cache that may evict
NextSharing ==
  \/ ncalls < MaxSharingCalls /\ TableInit("kStatic", FALSE, 16, TRUE)
  \/ ncalls < MaxSharingCalls /\ OpenCursor
  \/ ncalls < MaxSharingCalls /\ CloseCursor
  \/ \E f \in SharingFilters :
       /\ ncalls < MaxSharingCalls
       /\ Filter(Qc(f.cs, << >>), f.argv, SortRowMap, TRUE)
  \/ ncalls < MaxSharingCalls
       /\ OtherCursorGetOrCache(<<[column |-> 1, op |-> "EQ"]>>)
  \/ \E k \in query_cache :
       ncalls < MaxSharingCalls /\ QueryCacheEvict(k)

SpecSharing == Init /\ [][NextSharing]_vars

\* one cursor of a Static or Runtime table under long runs of Filter calls
\* on the constraint sets of SortConstraints, beside another cursor that
\* fills the cache and a cache that evicts
NextRetry ==
  \/ \E c \in {"kStatic", "kRuntime"} :
       ncalls < MaxRetryCalls /\ TableInit(c, FALSE, 16, TRUE)
  \/ ncalls < MaxRetryCalls /\ OpenCursor
  \/ \E cs \in SortConstraints :
       /\ ncalls < MaxRetryCalls
       /\ Filter(Qc(cs, << >>), [i \in 1..Len(cs) |-> SqliteInteger(5)],
                 SortRowMap, TRUE)
  \/ ncalls < MaxRetryCalls
       /\ OtherCursorGetOrCache(<<[column |-> 1, op |-> "EQ"]>>)
  \/ \E k \in query_cache :
       ncalls < MaxRetryCalls /\ QueryCacheEvict(k)

SpecRetry == Init /\ [][NextRetry]_vars

\* the cpus of the calls: 0 .. MaxCpu and 2^32 - 1
FtraceCpus == 0..MaxCpu \cup {-1}

\* event ids: two ids and the value that stands for none
FtraceEventIds == {5, 6, NoFtraceEventId}

\* the last event ids of the cpus, set and read in any order
NextFtrace ==
  \/ \E cpu \in FtraceCpus, id \in FtraceEventIds :
       ncalls < MaxFtraceCalls /\ SetLastFtraceEventId(cpu, id)
  \/ \E cpu \in FtraceCpus :
       ncalls < MaxFtraceCalls /\ GetLastFtraceEventId(cpu)

SpecFtrace == Init /\ [][NextFtrace]_vars

----------------------------------------------------------------------------
(* Properties *)

\* no two distinct ranges of the range map m overlap
Disjoint(m) ==
  \A r \in DOMAIN m : \A q \in DOMAIN m : r # q => ~Overlaps(r, q)

\* the user mappings stored in user_memory[pid]
StoredUser(pid) ==
  {MapAt(user_memory, pid)[r] : r \in DOMAIN MapAt(user_memory, pid)}

\* C1: in every state reached without an abort, no two ranges stored in
\* user_memory[pid] overlap (for every pid), no two ranges stored in
\* kernel_modules overlap, and no two ranges stored in jit_delegates[pid]
\* overlap (for every pid); every stored range is the range of the mapping
\* stored under it.
C1_RangeDisjointness ==
  ~aborted =>
    /\ \A pid \in DOMAIN user_memory :
         /\ Disjoint(user_memory[pid])
         /\ \A r \in DOMAIN user_memory[pid] :
              mappings_by_id[user_memory[pid][r]].memory_range = r
    /\ Disjoint(kernel_modules)
    /\ \A r \in DOMAIN kernel_modules :
         mappings_by_id[kernel_modules[r]].memory_range = r
    /\ \A pid \in DOMAIN jit_delegates : Disjoint(jit_delegates[pid])

\* two user mappings of one process, a kernel module and nothing aborted
C1_Witness ==
  /\ ~aborted
  /\ \E pid \in DOMAIN user_memory :
       Cardinality(DOMAIN user_memory[pid]) = 2
  /\ kernel_modules # EmptyFcn

\* C2: FindUserMappingForAddress(P, A) returns mapping M iff M is stored in
\* user_memory[P] and M's range contains A; if there is no such M and a range
\* of jit_delegates[P] contains A, it returns what that range's delegate's
\* CreateMapping() creates; otherwise it returns none.  When a user mapping
\* contains A no delegate's CreateMapping is invoked.
C2_FindConsistency ==
  op.name = "FindUserMappingForAddress" =>
    LET P == op.args.upid
        A == op.args.address
        users == {M \in StoredUser(P) :
                    ContainsAddr(mappings_by_id[M].memory_range, A)}
        jits == {r \in DOMAIN MapAt(jit_delegates, P) : ContainsAddr(r, A)}
    IN  /\ op.returned
        /\ \A M \in DOMAIN mappings_by_id :
             (op.ret.mapping = M) <=> (M \in users)
        /\ users # {} => op.ret.created_by = NoDelegate
        /\ (users = {} /\ jits # {}) =>
             /\ op.ret.mapping = NoMapping
             /\ \E r \in jits : op.ret.created_by = jit_delegates[P][r]
        /\ (users = {} /\ jits = {}) =>
             op.ret = [mapping |-> NoMapping, created_by |-> NoDelegate]

\* a lookup of an address that a user mapping and a JIT range both contain
C2_Witness ==
  /\ op.name = "FindUserMappingForAddress"
  /\ op.ret.mapping # NoMapping
  /\ \E r \in DOMAIN MapAt(jit_delegates, op.args.upid) :
       ContainsAddr(r, op.args.address)

\* C6: when CreateUserMemoryMapping(upid, params) returns, the new mapping's
\* JIT delegate is the delegate of the range of jit_delegates[upid] that
\* overlaps params.memory_range (that range contains it), and is unset when
\* no range of jit_delegates[upid] overlaps it.
C6_JitWrapsUser ==
  (op.name = "CreateUserMemoryMapping" /\ op.returned) =>
    LET jd == MapAt(jit_delegates, op.args.upid)
        range == op.args.params.memory_range
        over == {r \in DOMAIN jd : Overlaps(r, range)}
        m == mappings_by_id[op.ret]
    IN  /\ m.memory_range = range
        /\ over = {} => m.jit_delegate = NoDelegate
        /\ \A r \in over : Contains(r, range) /\ m.jit_delegate = jd[r]

\* a user mapping created inside a JIT range of its process while the other
\* process has a JIT range of its own
C6_Witness ==
  /\ op.name = "CreateUserMemoryMapping"
  /\ op.returned
  /\ mappings_by_id[op.ret].jit_delegate # NoDelegate
  /\ \E p \in Pids \ {op.args.upid} : MapAt(jit_delegates, p) # EmptyFcn

\* C7: after AddJitRange(upid, range, delegate) returns, (a) jit_delegates[upid]
\* maps range to delegate and holds no other entry overlapping range, the
\* entries that did not overlap being kept as they were, (b) every user mapping
\* stored in user_memory[upid] whose range overlaps range has delegate as its
\* JIT delegate, (c) the JIT ranges and the mappings' delegates of every other
\* pid are unchanged.
C7_Step ==
  (op'.name = "AddJitRange" /\ op'.returned) =>
    LET upid == op'.args.upid
        range == op'.args.range
        old == MapAt(jit_delegates, upid)
        new == jit_delegates'[upid]
    IN  /\ range \in DOMAIN new /\ new[range] = op'.args.delegate
        /\ \A r \in DOMAIN new \ {range} :
             ~Overlaps(r, range) /\ r \in DOMAIN old /\ new[r] = old[r]
        /\ \A r \in DOMAIN old : ~Overlaps(r, range) => r \in DOMAIN new
        /\ \A id \in DOMAIN mappings_by_id' :
             (/\ mappings_by_id'[id].kind = "user"
              /\ mappings_by_id'[id].upid = upid
              /\ Overlaps(mappings_by_id'[id].memory_range, range))
             => mappings_by_id'[id].jit_delegate = op'.args.delegate
        /\ \A p \in Pids \ {upid} :
             /\ p \in DOMAIN jit_delegates' <=> p \in DOMAIN jit_delegates
             /\ MapAt(jit_delegates', p) = MapAt(jit_delegates, p)
        /\ DOMAIN mappings_by_id' = DOMAIN mappings_by_id
        /\ \A id \in DOMAIN mappings_by_id :
             mappings_by_id[id].upid # upid =>
               mappings_by_id'[id] = mappings_by_id[id]

\* C7: every AddJitRange step has the effect C7_Step states
C7_AddJitRangeEffect == [][C7_Step]_vars

\* an AddJitRange that set the delegate of a user mapping while the other
\* process has a user mapping and a JIT range
C7_Witness ==
  /\ op.name = "AddJitRange"
  /\ op.returned
  /\ \E id \in StoredUser(op.args.upid) :
       /\ Overlaps(mappings_by_id[id].memory_range, op.args.range)
       /\ mappings_by_id[id].jit_delegate = op.args.delegate
  /\ \E p \in Pids \ {op.args.upid} :
       MapAt(jit_delegates, p) # EmptyFcn \/ MapAt(user_memory, p) # EmptyFcn

\* C3: every InternMemoryMapping(p) returns the mapping the first
\* InternMemoryMapping(p) returned, whatever ran in between, and a call after
\* the first creates no MappingId and adds nothing to the by-id and
\* by-name-build indexes.
C3_Step ==
  (op'.name = "InternMemoryMapping"
   /\ op'.args.params \in DOMAIN first_interned) =>
     /\ op'.returned
     /\ op'.ret = first_interned[op'.args.params]
     /\ mappings_by_id' = mappings_by_id
     /\ mappings_by_name_and_build_id' = mappings_by_name_and_build_id
     /\ interned_mappings' = interned_mappings

\* C3: every InternMemoryMapping returns the first mapping interned for its
\* params, and every step satisfies C3_Step
C3_InternIdempotence ==
  /\ [](op.name = "InternMemoryMapping" =>
          /\ op.returned
          /\ op.ret = first_interned[op.args.params])
  /\ [][C3_Step]_vars

\* a second InternMemoryMapping(p) after another mapping was created
C3_Witness ==
  /\ op.name = "InternMemoryMapping"
  /\ op.returned
  /\ op.ret < NextMappingId - 1

\* the names C4 and C5 call kernel-core names
IsCoreMarker(name) == name = "[kernel.kallsyms]" \/ name = "/kernel"

\* the kernel mappings that are not kernel modules
KernelCores ==
  {id \in DOMAIN mappings_by_id :
     /\ mappings_by_id[id].kind = "kernel"
     /\ \A r \in DOMAIN kernel_modules : kernel_modules[r] # id}

\* C4: once a kernel core exists, a CreateKernelMemoryMapping with a
\* kernel-core name returns that core and leaves every index unchanged when
\* its memory_range is the core's, and aborts the process when it is not; at
\* most one kernel core is ever created.
C4_Step ==
  (/\ op'.name = "CreateKernelMemoryMapping"
   /\ IsCoreMarker(op'.args.params.name)
   /\ kernel # NoMapping) =>
     IF op'.args.params.memory_range = mappings_by_id[kernel].memory_range
     THEN /\ op'.returned /\ ~aborted'
          /\ op'.ret = kernel
          /\ UNCHANGED trackerVars
     ELSE ~op'.returned /\ aborted'

\* C4: there is at most one kernel core, it is kernel_, and every step
\* satisfies C4_Step
C4_KernelCoreSingleton ==
  /\ [](Cardinality(KernelCores) <= 1 /\ KernelCores \subseteq {kernel})
  /\ [][C4_Step]_vars

\* a repeated kernel-core create that returned the core after a kernel
\* module had been created
C4_Witness ==
  /\ op.name = "CreateKernelMemoryMapping"
  /\ op.returned
  /\ op.ret = kernel
  /\ op.ret < NextMappingId - 1

\* C5 as stated: params is treated as the kernel core exactly when its name is
\* "[kernel.kallsyms]" or "/kernel"; under every other name the call creates
\* a kernel module stored in kernel_modules and does not return the core.
C5_ExactNames ==
  (op.name = "CreateKernelMemoryMapping" /\ op.returned) =>
    IF IsCoreMarker(op.args.params.name)
    THEN op.ret = kernel
    ELSE /\ op.ret # kernel
         /\ op.args.params.memory_range \in DOMAIN kernel_modules
         /\ kernel_modules[op.args.params.memory_range] = op.ret

\* C5 amended: params is treated as the kernel core exactly when its name
\* starts with "[kernel.kallsyms]" or is "/kernel"; under every other name the
\* call creates a kernel module stored in kernel_modules and neither installs
\* nor returns the core.
C5_Step ==
  (op'.name = "CreateKernelMemoryMapping" /\ op'.returned) =>
    IF \/ StartsWith(op'.args.params.name, "[kernel.kallsyms]")
       \/ op'.args.params.name = "/kernel"
    THEN /\ op'.ret = kernel'
         /\ kernel_modules' = kernel_modules
    ELSE /\ op'.ret # kernel'
         /\ kernel' = kernel
         /\ op'.args.params.memory_range \in DOMAIN kernel_modules'
         /\ kernel_modules'[op'.args.params.memory_range] = op'.ret
         /\ op'.ret \notin DOMAIN mappings_by_id

\* C5 amended: every CreateKernelMemoryMapping step satisfies C5_Step
C5_CoreOrModule == [][C5_Step]_vars

\* a create under a name that only starts with "[kernel.kallsyms]" returned
\* the core, and a kernel module exists beside it
C5_Witness ==
  /\ op.name = "CreateKernelMemoryMapping"
  /\ op.returned
  /\ op.args.params.name = "[kernel.kallsyms]_stext"
  /\ op.ret = kernel
  /\ kernel_modules # EmptyFcn

\* C8: each forbidden overlap takes the process to the aborted state and
\* returns nothing: (1) a user mapping overlapping a stored user mapping of
\* its pid, (2) a user mapping overlapping a JIT range of its pid that does not
\* contain it, (3) a kernel module overlapping a stored kernel module, (4) a
\* JIT range overlapping a user mapping of its pid that it does not contain,
\* (5) a kernel core whose range differs from the existing core's.
C8_Violation ==
  LET name == op'.name
      a == op'.args
  IN  \/ /\ name = "CreateUserMemoryMapping"
         /\ \E r \in DOMAIN MapAt(user_memory, a.upid) :
              Overlaps(r, a.params.memory_range)
      \/ /\ name = "CreateUserMemoryMapping"
         /\ \E r \in DOMAIN MapAt(jit_delegates, a.upid) :
              /\ Overlaps(r, a.params.memory_range)
              /\ ~Contains(r, a.params.memory_range)
      \/ /\ name = "CreateKernelMemoryMapping"
         /\ IsKernelModule(a.params.name)
         /\ \E r \in DOMAIN kernel_modules :
              Overlaps(r, a.params.memory_range)
      \/ /\ name = "AddJitRange"
         /\ \E r \in DOMAIN MapAt(user_memory, a.upid) :
              Overlaps(r, a.range) /\ ~Contains(a.range, r)
      \/ /\ name = "CreateKernelMemoryMapping"
         /\ ~IsKernelModule(a.params.name)
         /\ kernel # NoMapping
         /\ a.params.memory_range # mappings_by_id[kernel].memory_range

\* C8: every call that meets one of the five overlap violations aborts and
\* returns nothing
C8_OverlapsAreFatal ==
  [][C8_Violation => (aborted' /\ ~op'.returned /\ op'.ret = NoMapping)]_vars

\* an AddJitRange that overlapped a user mapping it does not contain
C8_Witness ==
  /\ aborted
  /\ op.name = "AddJitRange"
  /\ \E r \in DOMAIN MapAt(user_memory, op.args.upid) :
       Overlaps(r, op.args.range) /\ ~Contains(op.args.range, r)

\* the frame interning history of the mappings that have no JIT delegate
OwnFrameCalls ==
  {k \in DOMAIN frame_calls : mappings_by_id[k[1]].jit_delegate = NoDelegate}

\* C9 as stated: all InternFrame(rel_pc, name) calls on a mapping return the
\* same FrameId and OnFrameCreated is notified exactly once per
\* (rel_pc, name), also when AddJitRange sets the mapping's JIT delegate
\* between the calls.
C9_AlwaysIdempotent ==
  \A k \in DOMAIN frame_calls :
     /\ Cardinality(frame_calls[k].ids) = 1
     /\ frame_calls[k].notified = 1

\* C9 amended: on a mapping that has no JIT delegate, all
\* InternFrame(rel_pc, name) calls return the same FrameId, that FrameId is
\* notified to OnFrameCreated exactly once, and it is notified for no other
\* mapping or (rel_pc, name).
C9_OwnFramesIdempotent ==
  \A k \in OwnFrameCalls :
     /\ Cardinality(frame_calls[k].ids) = 1
     /\ frame_calls[k].notified = 1
     /\ \A f \in frame_calls[k].ids :
          /\ Cardinality({i \in 1..Len(frames_created) :
                            frames_created[i] = f}) = 1
          /\ \A j \in DOMAIN frame_calls :
               j # k => f \notin frame_calls[j].ids

\* InternFrame called twice with the same (rel_pc, name) on a mapping without
\* a delegate, and once with another name
C9_Witness ==
  /\ op.name = "InternFrame"
  /\ \E k \in OwnFrameCalls : frame_calls[k].calls >= 2
  /\ Cardinality(OwnFrameCalls) >= 2

\* the elements of the finite set of integers S in ascending order
RECURSIVE Ascending(_)
Ascending(S) ==
  IF S = {} THEN << >>
  ELSE LET lo == CHOOSE x \in S : \A y \in S : x <= y
       IN  <<lo>> \o Ascending(S \ {lo})

\* C10: FindMappings(name, build_id) returns exactly the mappings of any
\* variant created with that name and that build id, each once, in the order
\* of their creation (MappingIds are handed out in creation order); it is the
\* empty sequence when there is none.
C10_FindMappingsOrder ==
  op.name = "FindMappings" =>
    /\ op.returned
    /\ op.ret = Ascending({id \in DOMAIN mappings_by_id :
                             /\ mappings_by_id[id].name = op.args.name
                             /\ mappings_by_id[id].build_id = op.args.build_id})

\* FindMappings returned two mappings of different variants
C10_Witness ==
  /\ op.name = "FindMappings"
  /\ Len(op.ret) = 2
  /\ mappings_by_id[op.ret[1]].kind # mappings_by_id[op.ret[2]].kind

\* the kernel modules: the mappings stored in kernel_modules
KernelModules == {kernel_modules[r] : r \in DOMAIN kernel_modules}

\* the kernel modules whose own memory_range contains the address a
ModulesContaining(a) ==
  {id \in KernelModules : ContainsAddr(mappings_by_id[id].memory_range, a)}

\* C11: FindKernelMappingForAddress(A) returns the kernel module whose range
\* contains A if there is one (also when the core's range contains A too);
\* otherwise the kernel core if it exists and its range contains A; otherwise
\* no mapping.
C11_KernelFindPrecedence ==
  (op.name = "FindKernelMappingForAddress") =>
    /\ op.returned
    /\ IF ModulesContaining(op.args.address) # {}
       THEN op.ret \in ModulesContaining(op.args.address)
       ELSE IF kernel # NoMapping
               /\ ContainsAddr(mappings_by_id[kernel].memory_range,
                               op.args.address)
       THEN op.ret = kernel
       ELSE op.ret = NoMapping

\* a lookup of an address that the core and a module both contain returned
\* the module
C11_Witness ==
  /\ op.name = "FindKernelMappingForAddress"
  /\ kernel # NoMapping
  /\ ContainsAddr(mappings_by_id[kernel].memory_range, op.args.address)
  /\ op.ret \in KernelModules
  /\ op.ret # kernel

\* 2^64 - 1 in base 2^16, least significant digit first
AllOnes64 == <<65535, 65535, 65535, 65535>>

\* C12: GetOrCreateKernelMemoryMappingDefault returns the existing kernel core
\* and changes nothing when there is one; otherwise it creates and installs a
\* core with range [0,0), offsets 0, load_bias 2^64-1, name "/kernel" and no
\* build id; a call that follows another such call returns the same mapping
\* and creates none.
C12_Step ==
  (op'.name = "GetOrCreateKernelMemoryMappingDefault") =>
    /\ op'.returned /\ ~aborted'
    /\ IF kernel # NoMapping
       THEN /\ op'.ret = kernel
            /\ UNCHANGED trackerVars
       ELSE /\ op'.ret \notin DOMAIN mappings_by_id
            /\ DOMAIN mappings_by_id' = DOMAIN mappings_by_id \cup {op'.ret}
            /\ kernel' = op'.ret
            /\ kernel_modules' = kernel_modules
            /\ mappings_by_id'[op'.ret].kind = "kernel"
            /\ mappings_by_id'[op'.ret].memory_range = AddressRange(0, 0)
            /\ mappings_by_id'[op'.ret].offset = 0
            /\ DefaultKernelParams.start_offset = 0
            /\ mappings_by_id'[op'.ret].load_bias = AllOnes64
            /\ mappings_by_id'[op'.ret].name = "/kernel"
            /\ mappings_by_id'[op'.ret].build_id = NoBuildId
    /\ (op.name = "GetOrCreateKernelMemoryMappingDefault") =>
         /\ op'.ret = op.ret
         /\ mappings_by_id' = mappings_by_id

\* C12: every GetOrCreateKernelMemoryMappingDefault step satisfies C12_Step
C12_DefaultKernelIdempotent == [][C12_Step]_vars

\* the third call returned the default core that an earlier call created
\* beside a kernel module
C12_Witness ==
  /\ op.name = "GetOrCreateKernelMemoryMappingDefault"
  /\ ncalls = 3
  /\ op.ret = kernel
  /\ mappings_by_id[kernel].name = "/kernel"
  /\ mappings_by_id[kernel].memory_range = AddressRange(0, 0)
  /\ mappings_by_id[kernel].load_bias = AllOnes64
  /\ Cardinality(DOMAIN mappings_by_id) = 2

\* the calls that create a mapping when they return a mapping that was not
\* in mappings_by_id
CreatingCalls ==
  {"CreateUserMemoryMapping", "CreateKernelMemoryMapping",
   "GetOrCreateKernelMemoryMappingDefault", "InternMemoryMapping"}

\* C13: every mapping of mappings_by_id stays there under its id with its
\* kind, pid, name and memory_range unchanged in every step (AddJitRange
\* included), and a call that creates a mapping gives it an id no other
\* mapping has and adds nothing else.
C13_Step ==
  /\ \A id \in DOMAIN mappings_by_id :
       /\ id \in DOMAIN mappings_by_id'
       /\ mappings_by_id'[id].memory_range = mappings_by_id[id].memory_range
       /\ mappings_by_id'[id].kind = mappings_by_id[id].kind
       /\ mappings_by_id'[id].upid = mappings_by_id[id].upid
       /\ mappings_by_id'[id].name = mappings_by_id[id].name
  /\ IF op'.name \in CreatingCalls /\ op'.returned
        /\ op'.ret \notin DOMAIN mappings_by_id
     THEN DOMAIN mappings_by_id' = DOMAIN mappings_by_id \cup {op'.ret}
     ELSE DOMAIN mappings_by_id' = DOMAIN mappings_by_id

TranslatableOps ==
  {"EQ", "NE", "LT", "LE", "GT", "GE", "ISNULL", "ISNOTNULL", "GLOB"}

\* C16: after a successful BestIndex, sqlite_omit_constraint[i] is true iff
\* the operator of constraint i is Eq, Ne, Lt, Le, Gt, Ge, IsNull, IsNotNull
\* or Glob, or is Regex in a build that supports regex (so it is false for
\* Like, Limit, Offset, Is and IsNot), and sqlite_omit_order_by is true.
C16_OmitFlags ==
  (op.name = "BestIndex" /\ op.returned /\ op.ret = "SQLITE_OK") =>
    /\ info.qc = op.args.qc
    /\ DOMAIN info.sqlite_omit_constraint = 1..Len(op.args.qc.constraints)
    /\ \A i \in 1..Len(op.args.qc.constraints) :
         info.sqlite_omit_constraint[i] =
           (\/ op.args.qc.constraints[i].op \in TranslatableOps
            \/ (op.args.qc.constraints[i].op = "REGEXP" /\ regex_supported))
    /\ info.sqlite_omit_order_by

\* a successful BestIndex in a build without regex support left a Regex
\* constraint to SQLite and took over the order-by
C16_Witness ==
  /\ op.name = "BestIndex"
  /\ op.ret = "SQLITE_OK"
  /\ ~regex_supported
  /\ Len(op.args.qc.constraints) = 1
  /\ op.args.qc.constraints[1].op = "REGEXP"
  /\ ~info.sqlite_omit_constraint[1]
  /\ Len(op.args.qc.order_by) = 1
  /\ info.sqlite_omit_order_by

\* the hidden columns of schema_ that do not have exactly one constraint,
\* that one being Eq
BadArgumentColumns(qc) ==
  {col \in 0..(Len(schema_) - 1) :
     /\ ColumnAt(schema_, col).is_hidden
     /\ LET on == {j \in 1..Len(qc.constraints) :
                     qc.constraints[j].column = col}
        IN  \/ Cardinality(on) # 1
            \/ \E j \in on : qc.constraints[j].op # "EQ"}

\* C17: a BestIndex of a TableFunction table returns the constraint error iff
\* some hidden column does not have exactly one constraint, that one being
\* Eq, and then writes neither cost, row estimate nor omit flags; a BestIndex
\* of a Static or Runtime table never returns an error.
C17_ArgumentValidation ==
  (op.name = "BestIndex" /\ op.returned) =>
    /\ IF computation = "kTableFunction"
       THEN (op.ret = "SQLITE_CONSTRAINT") <=>
              (BadArgumentColumns(op.args.qc) # {})
       ELSE op.ret = "SQLITE_OK"
    /\ (op.ret = "SQLITE_CONSTRAINT") =>
         /\ ~info.written
         /\ info.estimated_cost = 0 /\ info.estimated_rows = 0
         /\ \A i \in DOMAIN info.sqlite_omit_constraint :
              ~info.sqlite_omit_constraint[i]
         /\ ~info.sqlite_omit_order_by
    /\ (op.ret = "SQLITE_OK") => info.written

\* BestIndex returned the constraint error for two Eq constraints on the
\* hidden column
C17_Witness ==
  /\ op.name = "BestIndex"
  /\ op.ret = "SQLITE_CONSTRAINT"
  /\ computation = "kTableFunction"
  /\ Len(op.args.qc.constraints) = 2
  /\ \A j \in 1..2 : /\ op.args.qc.constraints[j].column = 2
                     /\ op.args.qc.constraints[j].op = "EQ"

\* the calls of the given name that the last Filter made
EventsOf(call) == {i \in 1..Len(events) : events[i].call = call}

\* constraint i of the last Filter is on a hidden column of a table function
OnArgumentColumn(i) ==
  /\ computation = "kTableFunction"
  /\ ColumnAt(schema_, op.args.qc.constraints[i].column).is_hidden

\* the Constraints of the omitted constraints from i on that are not on an
\* argument column, in order
RECURSIVE OmittedFrom(_)
OmittedFrom(i) ==
  IF i > Len(op.args.qc.constraints) THEN << >>
  ELSE IF info.sqlite_omit_constraint[i] /\ ~OnArgumentColumn(i)
  THEN <<Constraint(op.args.qc.constraints[i].column,
                    SqliteOpToFilterOp(op.args.qc.constraints[i].op),
                    SqliteValueToSqlValue(op.args.argv[i]))>>
         \o OmittedFrom(i + 1)
  ELSE OmittedFrom(i + 1)

\* C15: when BestIndex succeeded on the constraints of a successful Filter,
\* every constraint with omit[i] = true is either passed, as Constraint{
\* column, translated op, value}, to the one QueryToRowMap call or, on a
\* hidden column of a table function, is stored in that column's slot of the
\* arguments given to ComputeTable; the constraints passed are exactly the
\* omitted ones, so every constraint with omit[i] = false is skipped.
C15_OmitFilterSymmetry ==
  (/\ op.name = "Filter" /\ op.returned /\ op.ret = "ok"
   /\ info.written /\ info.qc = op.args.qc) =>
    /\ Cardinality(EventsOf("QueryToRowMap")) = 1
    /\ \A e \in EventsOf("QueryToRowMap") :
         events[e].constraints = OmittedFrom(1)
    /\ \A i \in 1..Len(op.args.qc.constraints) :
         OnArgumentColumn(i) =>
           /\ info.sqlite_omit_constraint[i]
           /\ Cardinality(EventsOf("ComputeTable")) = 1
           /\ \A e \in EventsOf("ComputeTable") :
                LET slot == Cardinality(
                      {c \in 0..(op.args.qc.constraints[i].column - 1) :
                         ColumnAt(schema_, c).is_hidden}) + 1
                IN  /\ slot \in DOMAIN events[e].arguments
                    /\ events[e].arguments[slot] =
                         SqliteValueToSqlValue(op.args.argv[i])

\* Filter of a table function succeeded on [hidden = 5, id > "a.*"] after
\* BestIndex had omitted both constraints
C15_Witness ==
  /\ op.name = "Filter" /\ op.ret = "ok"
  /\ info.written /\ info.qc = op.args.qc
  /\ computation = "kTableFunction"
  /\ Len(op.args.qc.constraints) = 2
  /\ info.sqlite_omit_constraint = <<TRUE, TRUE>>
  /\ Len(constraints_) = 1
  /\ table_function_arguments_[1].long_value = 5

\* C18: after a Filter that returned an error the cursor reports EOF and
\* holds no iterator, whatever an earlier Filter had left.
C18_ErrorLeavesEof ==
  (op.name = "Filter" /\ op.returned /\ op.ret = "error") =>
    eof_ /\ ~iterator_.held

\* a Regex constraint of the last Filter has a value that is no string or
\* does not compile
BadRegexValue ==
  \E i \in 1..Len(op.args.qc.constraints) :
     /\ op.args.qc.constraints[i].op = "REGEXP"
     /\ \/ op.args.argv[i].type # "SQLITE_TEXT"
        \/ ~RegexCreateOk(op.args.argv[i].text)

\* the last Filter neither consulted the query cache, nor called
\* ComputeTable, QueryToRowMap or ApplyAndIterateRows
NoFiltering ==
  \A i \in 1..Len(events) :
     events[i].call \notin {"GetIfCached", "GetOrCache", "ComputeTable",
                            "QueryToRowMap", "ApplyAndIterateRows"}

\* C19 as stated: a Filter with such a Regex value returns an error and does
\* no filtering, in every build.
C19_RegexErrorsAlways ==
  (op.name = "Filter" /\ op.returned /\ BadRegexValue) =>
    op.ret = "error" /\ NoFiltering

\* C19 amended: in a build that supports regex, a Filter with a Regex value
\* that is no string or does not compile returns an error and, in that call,
\* neither consults the query cache, nor calls ComputeTable, QueryToRowMap or
\* ApplyAndIterateRows; the mode, the eof flag and the tables of the cursor
\* are those the call found.
C19_Step ==
  (op'.name = "Filter" /\ op'.returned /\ regex_supported
   /\ \E i \in 1..Len(op'.args.qc.constraints) :
        /\ op'.args.qc.constraints[i].op = "REGEXP"
        /\ \/ op'.args.argv[i].type # "SQLITE_TEXT"
           \/ ~RegexCreateOk(op'.args.argv[i].text)) =>
    /\ op'.ret = "error"
    /\ \A i \in 1..Len(events') :
         events'[i].call \notin {"GetIfCached", "GetOrCache", "ComputeTable",
                                 "QueryToRowMap", "ApplyAndIterateRows"}
    /\ UNCHANGED <<query_cache, upstream_table_, sorted_cache_table_,
                   dynamic_table_, tables_computed, mode_, eof_>>

\* C19 amended: every Filter step satisfies C19_Step
C19_RegexErrorsPrecedeFiltering == [][C19_Step]_vars

\* in a regex build, a Filter whose second constraint is a Regex with a
\* pattern that does not compile returned an error on a cursor that an
\* earlier Filter had left in table mode
C19_Witness ==
  /\ op.name = "Filter" /\ op.ret = "error"
  /\ regex_supported
  /\ Len(op.args.qc.constraints) = 2
  /\ op.args.argv[2] = SqliteText("(")
  /\ mode_ = "kTable"
  /\ NoFiltering

\* the tables the cursor references
ReferencedTables ==
  {upstream_table_, sorted_cache_table_, dynamic_table_} \ {NoTable}

\* C20: the cursor never holds an iterator over a table it does not
\* reference; every Filter releases the iterator of the previous Filter
\* before it re-assigns dynamic_table_ or sorted_cache_table_, and a Filter
\* that returns an error leaves no iterator.
C20_IteratorReleasedFirst ==
  /\ iterator_.held => iterator_.table \in ReferencedTables
  /\ (op.name = "Filter" /\ op.returned) =>
       /\ Len(events) >= 1 /\ events[1].call = "ResetIterator"
       /\ \A i \in EventsOf("SetDynamicTable") \cup
                   EventsOf("SetSortedCacheTable") : i > 1
       /\ op.ret = "error" => ~iterator_.held

\* the second Filter of a table-function cursor released the iterator over
\* the first computed table, replaced that table by the second and ended in
\* single-row mode
C20_Witness ==
  /\ op.name = "Filter" /\ op.ret = "ok"
  /\ events[1].call = "ResetIterator"
  /\ events[1].table = ComputedTable(1)
  /\ dynamic_table_ = ComputedTable(2)
  /\ mode_ = "kSingleRow"
  /\ ~iterator_.held

\* the constraint set of the last Filter is one the sort cache takes: one
\* constraint, Eq, on a column that is not sorted
SortCacheEligible ==
  /\ Len(op.args.qc.constraints) = 1
  /\ op.args.qc.constraints[1].op = "EQ"
  /\ ~ColumnAt(schema_, op.args.qc.constraints[1].column).is_sorted

\* C14: on a Static or Runtime cursor with a cache, GetOrCache is called only
\* in the third consecutive Same Filter since the last Different; after the
\* third Same call on an eligible constraint set the sorted table is cached
\* and latched, and the fourth Same call filters against it.
C14_ThirdSameCallActivates ==
  (/\ op.name = "Filter" /\ op.returned /\ op.args.history = "kSame"
   /\ computation \in {"kStatic", "kRuntime"} /\ cache_) =>
    /\ EventsOf("GetOrCache") # {} => same_run = 3
    /\ (same_run >= 3 /\ SortCacheEligible) =>
         /\ sorted_cache_table_ =
              SortedTable(op.args.qc.constraints[1].column)
         /\ CacheKey(upstream_table_, op.args.qc.constraints) \in query_cache
    /\ (same_run = 4 /\ SortCacheEligible) =>
         \A e \in EventsOf("QueryToRowMap") :
            events[e].table = SortedTable(op.args.qc.constraints[1].column)

\* C21: after a successful Filter the cursor is in single-row mode iff the
\* row map QueryToRowMap returned is a range of at most one row; in
\* single-row mode it holds no iterator, is at EOF iff the row map is empty
\* and holds the row of a one-row map; otherwise it is in table mode, holds
\* an iterator and is at EOF iff the iterator has no row.
C21_SingleRowFastPath ==
  (op.name = "Filter" /\ op.returned /\ op.ret = "ok") =>
    /\ (mode_ = "kSingleRow")
         <=> (filter_map.is_range /\ filter_map.size <= 1)
    /\ mode_ = "kSingleRow" =>
         /\ ~iterator_.held
         /\ eof_ <=> (filter_map.size = 0)
         /\ filter_map.size = 1 => single_row_ = filter_map.first
    /\ mode_ # "kSingleRow" =>
         /\ mode_ = "kTable"
         /\ iterator_.held
         /\ eof_ <=> (iterator_.rows = 0)

\* a Filter whose row map is the one-row range [3, 4) leaves the cursor in
\* single-row mode on row 3, in the second Filter of the cursor
C21_Witness ==
  /\ op.name = "Filter" /\ op.returned /\ op.ret = "ok"
  /\ filter_map = RowMap(TRUE, 1, 3)
  /\ mode_ = "kSingleRow" /\ single_row_ = 3 /\ ~eof_
  /\ ncalls = 4

\* the hidden columns of the schema from column i - 1 on, in schema order
RECURSIVE HiddenColumns(_, _)
HiddenColumns(schema, i) ==
  IF i > Len(schema) THEN << >>
  ELSE (IF schema[i].is_hidden THEN <<i - 1>> ELSE << >>)
         \o HiddenColumns(schema, i + 1)

\* the constraints of the last Filter from i on that are on a non-hidden
\* column and have an operator of ops, as Constraint{col, op, value}, in
\* order
RECURSIVE VisibleFrom(_, _)
VisibleFrom(i, ops) ==
  IF i > Len(op.args.qc.constraints) THEN << >>
  ELSE LET c == op.args.qc.constraints[i]
       IN  (IF ~ColumnAt(schema_, c.column).is_hidden /\ c.op \in ops
            THEN <<Constraint(c.column, SqliteOpToFilterOp(c.op),
                              SqliteValueToSqlValue(op.args.argv[i]))>>
            ELSE << >>)
             \o VisibleFrom(i + 1, ops)

\* in the last Filter, of a table function, ComputeTable got in slot k the
\* value of the Eq constraint on the k-th hidden column, and no constraint
\* on a hidden column went to the upstream table
ArgumentsRouted ==
  LET hidden == HiddenColumns(schema_, 1)
      cs == op.args.qc.constraints
  IN  /\ \A e \in EventsOf("ComputeTable") :
           /\ Len(events[e].arguments) = Len(hidden)
           /\ \A k \in 1..Len(hidden), i \in 1..Len(cs) :
                (cs[i].column = hidden[k] /\ cs[i].op = "EQ") =>
                  events[e].arguments[k]
                    = SqliteValueToSqlValue(op.args.argv[i])
      /\ \A e \in EventsOf("QueryToRowMap") :
           \A j \in 1..Len(events[e].constraints) :
             ~ColumnAt(schema_, events[e].constraints[j].col_idx).is_hidden

\* C22 as stated: in a Filter on a table function cursor the arguments are
\* routed to their slots and every constraint on a non-hidden column is
\* passed to the upstream table, in order.
C22_AllVisiblePassed ==
  (op.name = "Filter" /\ op.returned /\ computation = "kTableFunction") =>
    /\ ArgumentsRouted
    /\ \A e \in EventsOf("QueryToRowMap") :
         events[e].constraints = VisibleFrom(1, SqliteOps)

\* C22: in a Filter on a table function cursor the value of the Eq
\* constraint on the k-th hidden column (in schema order, from 0) is in
\* argument slot k of ComputeTable and is not among the constraints passed
\* to the upstream table; the constraints on non-hidden columns whose
\* operator has a FilterOp are passed on as Constraint{col, op, value} in
\* their original relative order.
C22_ArgumentRouting ==
  (op.name = "Filter" /\ op.returned /\ computation = "kTableFunction") =>
    /\ ArgumentsRouted
    /\ \A e \in EventsOf("QueryToRowMap") :
         events[e].constraints
           = VisibleFrom(1, {o \in SqliteOps :
                               SqliteOpToFilterOp(o)
                                 \notin {"nullopt", "fatal"}})

\* Filter on [h3 = 5, v2 LIKE 10, h1 = 7, v0 > 9] with hidden columns 1 and
\* 3: slot 0 holds 7, slot 1 holds 5, and the one Constraint is v0 > 9
C22_Witness ==
  /\ op.name = "Filter" /\ op.returned /\ op.ret = "ok"
  /\ schema_ = RoutingSchema
  /\ Len(op.args.qc.constraints) = 4
  /\ op.args.qc.constraints[2].op = "LIKE"
  /\ Len(table_function_arguments_) = 2
  /\ table_function_arguments_[1].long_value = 7
  /\ table_function_arguments_[2].long_value = 5
  /\ \E e \in EventsOf("QueryToRowMap") :
       events[e].constraints
         = <<Constraint(0, "kGt", SqliteValueToSqlValue(SqliteInteger(9)))>>

\* the number of positions of the sequence q that hold x
Count(q, x) == Cardinality({i \in 1..Len(q) : q[i] = x})

\* the column of a constraint of the planner's table
PlanColumn(c) == ColumnAt(schema_, c.column)

\* C23: ModifyConstraints only permutes the constraints, and in the result
\* every constraint on an is_id column precedes every constraint on a
\* non-is_id column, every constraint on an is_set_id (non-id) column
\* precedes every constraint on a column that is neither, and among the
\* latter every constraint on an is_sorted column precedes every constraint
\* on a non-sorted column.
C23_PlannerPriority ==
  (op.name = "ModifyConstraints" /\ op.returned) =>
    LET before == op.args.qc.constraints
        after == op.ret.constraints
        Neither(c) == ~PlanColumn(c).is_id /\ ~PlanColumn(c).is_set_id
    IN  /\ Len(after) = Len(before)
        /\ \A i \in 1..Len(before) :
             Count(after, before[i]) = Count(before, before[i])
        /\ \A i, j \in 1..Len(after) :
             /\ (PlanColumn(after[i]).is_id /\ ~PlanColumn(after[j]).is_id)
                  => i < j
             /\ (/\ PlanColumn(after[i]).is_set_id
                 /\ ~PlanColumn(after[i]).is_id
                 /\ Neither(after[j]))
                  => i < j
             /\ (/\ Neither(after[i]) /\ Neither(after[j])
                 /\ PlanColumn(after[i]).is_sorted
                 /\ ~PlanColumn(after[j]).is_sorted)
                  => i < j

\* ModifyConstraints on [plain > x, sorted = y, id = z] returned
\* [id = z, sorted = y, plain > x]
C23_Witness ==
  /\ op.name = "ModifyConstraints" /\ op.returned
  /\ op.args.qc.constraints
       = <<[column |-> 3, op |-> "GT"], [column |-> 2, op |-> "EQ"],
           [column |-> 0, op |-> "EQ"]>>
  /\ op.ret.constraints
       = <<[column |-> 0, op |-> "EQ"], [column |-> 2, op |-> "EQ"],
           [column |-> 3, op |-> "GT"]>>

\* the priority of a constraint's column under the (is_id, is_set_id,
\* is_sorted) rule
Priority(c) ==
  IF PlanColumn(c).is_id THEN 0
  ELSE IF PlanColumn(c).is_set_id THEN 1
  ELSE IF PlanColumn(c).is_sorted THEN 2
  ELSE 3

\* C24: ModifyConstraints reorders the constraints with a stable sort: the
\* constraints of one priority are, in the result, in the order they had
\* before the call.
C24_StableReordering ==
  (op.name = "ModifyConstraints" /\ op.returned) =>
    \A k \in 0..3 :
      SelectSeq(op.ret.constraints, LAMBDA c : Priority(c) = k)
        = SelectSeq(op.args.qc.constraints, LAMBDA c : Priority(c) = k)

\* order-by term o is ascending on an is_sorted column
AscendingSorted(o) == ~o.desc /\ ColumnAt(schema_, o.iColumn).is_sorted

\* some constraint given to ModifyConstraints is an Eq on the column of o
HasEq(o) ==
  \E i \in 1..Len(op.args.qc.constraints) :
     /\ op.args.qc.constraints[i].column = o.iColumn
     /\ op.args.qc.constraints[i].op = "EQ"

\* C25: after ModifyConstraints the order-by terms are the original ones
\* without those on a column with an Eq constraint and without the maximal
\* trailing run of ascending terms on is_sorted columns: none is left on a
\* column with an Eq constraint, the last one (if any) is descending or on a
\* non-sorted column, and the remaining ones keep their relative order.
C25_OrderingsPruning ==
  (op.name = "ModifyConstraints" /\ op.returned) =>
    LET without_eq == SelectSeq(op.args.qc.order_by, LAMBDA o : ~HasEq(o))
        after == op.ret.order_by
        n == Len(after)
    IN  /\ n <= Len(without_eq)
        /\ after = SubSeq(without_eq, 1, n)
        /\ \A i \in (n + 1)..Len(without_eq) : AscendingSorted(without_eq[i])
        /\ n > 0 => ~AscendingSorted(after[n])
        /\ \A i \in 1..n : ~HasEq(after[i])

\* ModifyConstraints on [sorted = x] ORDER BY plain, sorted, id left
\* ORDER BY plain
C25_Witness ==
  /\ op.name = "ModifyConstraints" /\ op.returned
  /\ op.args.qc.constraints = <<[column |-> 2, op |-> "EQ"]>>
  /\ op.args.qc.order_by
       = <<[iColumn |-> 3, desc |-> FALSE], [iColumn |-> 2, desc |-> FALSE],
           [iColumn |-> 0, desc |-> FALSE]>>
  /\ op.ret.order_by = <<[iColumn |-> 3, desc |-> FALSE]>>

\* C26: with the schema, the constraints and the order-by terms fixed, the
\* cost EstimateCost returns for a row count n is not greater than the cost
\* it returns for a row count m >= n.
C26_CostMonotonicity ==
  (op.name = "BestIndex" /\ op.returned /\ info.written) =>
    \A n \in 0..row_count :
       EstimateCost(schema_, n, info.qc).cost <= info.estimated_cost

\* BestIndex on a table of three rows under one equality on the plain
\* column: the estimate of rows, 3 / (2 * log2(3)) < 1, is raised to 1, and
\* the cost is above that of two rows and of one row
C26_Witness ==
  /\ op.name = "BestIndex" /\ op.returned /\ info.written
  /\ row_count = 3
  /\ info.qc = Qc(<<[column |-> 3, op |-> "EQ"]>>, << >>)
  /\ info.estimated_rows = 1
  /\ EstimateCost(schema_, 1, info.qc).cost
       < EstimateCost(schema_, 2, info.qc).cost
  /\ EstimateCost(schema_, 2, info.qc).cost < info.estimated_cost

\* C30: on a table of two rows or more, when the first constraint is an Eq
\* on an is_id column, EstimateCost returns estimated_rows = 1 and cost =
\* 1000 + 10 + 2 = 1012, whatever the further constraints and the number of
\* order-by terms.
C30_IdEqFastTrack ==
  (/\ op.name = "BestIndex" /\ op.returned /\ info.written
   /\ row_count >= 2
   /\ Len(info.qc.constraints) >= 1
   /\ info.qc.constraints[1].op = "EQ"
   /\ ColumnAt(schema_, info.qc.constraints[1].column).is_id) =>
    /\ info.estimated_rows = 1
    /\ info.estimated_cost = 1012 * Milli

\* BestIndex on a table of twenty rows under [id = x, plain > y] with two
\* order-by terms
C30_Witness ==
  /\ op.name = "BestIndex" /\ op.returned /\ info.written
  /\ row_count = 20
  /\ info.qc.constraints
       = <<[column |-> 0, op |-> "EQ"], [column |-> 3, op |-> "GT"]>>
  /\ Len(info.qc.order_by) = 2
  /\ info.estimated_cost = 1012 * Milli

\* a step is a Filter call in which GetOrCache was called: the history is
\* Same, no sorted table was latched before the call, the constraint set is
\* one Eq constraint on a column that is not sorted, the cursor is not that
\* of a table function and has a cache, and the table latched is the copy
\* sorted by the constrained column
C27_Step ==
  (/\ op'.name = "Filter"
   /\ \E i \in 1..Len(events') : events'[i].call = "GetOrCache") =>
    LET cs == op'.args.qc.constraints
    IN  /\ op'.args.history = "kSame"
        /\ sorted_cache_table_ = NoTable
        /\ Len(cs) = 1
        /\ cs[1].op = "EQ"
        /\ ~ColumnAt(schema_, cs[1].column).is_sorted
        /\ computation # "kTableFunction"
        /\ cache_
        /\ sorted_cache_table_' = SortedTable(cs[1].column)

\* C27: a cursor calls the cache's GetOrCache only when the Filter history
\* is Same, no sorted table is latched, the constraint set has exactly one
\* constraint, that constraint is Eq and its column is not is_sorted; never
\* for a table function cursor, for a cursor without a cache or on a
\* Different call.
C27_SortCacheEligibility == [][C27_Step]_vars

\* a Same Filter on [col1 = 5] of a Static cursor called GetOrCache and
\* latched the copy sorted by column 1
C27_Witness ==
  /\ op.name = "Filter" /\ op.returned /\ op.args.history = "kSame"
  /\ computation = "kStatic"
  /\ EventsOf("GetOrCache") # {}
  /\ sorted_cache_table_ = SortedTable(1)

\* the last call is a Filter with history Different on a Static or Runtime
\* cursor with a cache
DifferentFilter ==
  /\ op.name = "Filter" /\ op.returned /\ op.args.history = "kDifferent"
  /\ computation \in {"kStatic", "kRuntime"} /\ cache_

\* the counter is 0 and the latched table is the cache's entry for the
\* upstream table and the constraints of the last Filter, or none
PolicyReset ==
  /\ repeated_cache_count_ = 0
  /\ sorted_cache_table_
       = (IF CacheKey(upstream_table_, op.args.qc.constraints) \in query_cache
          THEN SortedTable(op.args.qc.constraints[1].column)
          ELSE NoTable)

C29_CacheSharing ==
  (/\ DifferentFilter
   /\ CacheKey(upstream_table_, op.args.qc.constraints) \in query_cache) =>
    /\ op.ret = "ok"
    /\ sorted_cache_table_ = SortedTable(op.args.qc.constraints[1].column)
    /\ EventsOf("GetOrCache") = {}
    /\ \A e \in EventsOf("QueryToRowMap") :
         events[e].table = sorted_cache_table_

\* the first Filter of the second cursor of the table, on [col1 = 5],
\* latched the sorted table that the first cursor, now destroyed, had put
\* in the cache with its fifth Filter
C29_Witness ==
  /\ DifferentFilter /\ op.ret = "ok"
  /\ cursors_created = 2
  /\ ncalls = 10
  /\ op.args.qc.constraints = <<[column |-> 1, op |-> "EQ"]>>
  /\ sorted_cache_table_ = SortedTable(1)
  /\ EventsOf("GetOrCache") = {}

\* current_row_count after the first k constraints of cs (the row count the
\* loop of EstimateCost holds does not depend on cs.size())
RowsAfter(k) ==
  EstimateFilter(schema_, SubSeq(info.qc.constraints, 1, k), 1, row_count,
                 0).rows

\* the parts of C31 on the returned pair and on the running estimate
RowEstimateBounds ==
  /\ (info.estimated_cost = 1000 * Milli /\ info.estimated_rows = 0)
       <=> row_count = 0
  /\ row_count >= 1 =>
       /\ 1 <= info.estimated_rows
       /\ info.estimated_rows <= row_count
       /\ info.estimated_rows = RowsAfter(Len(info.qc.constraints))
       /\ \A k \in 1..Len(info.qc.constraints) :
            RowsAfter(k) <= RowsAfter(k - 1)

\* C31 as stated: (cost 1000, rows 0) iff the table is empty, 1 <=
\* estimated_rows <= row_count otherwise, the running estimate never
\* increases, and the cost is that of the constraints up to the point where
\* the estimate has dropped below 2: the later ones contribute nothing.
C31_LaterConstraintsFree ==
  (op.name = "BestIndex" /\ op.returned /\ info.written) =>
    /\ RowEstimateBounds
    /\ \A k \in 0..(Len(info.qc.constraints) - 1) :
         (row_count >= 1 /\ RowsAfter(k) < 2) =>
           info.estimated_cost
             = EstimateCost(schema_, row_count,
                            Qc(SubSeq(info.qc.constraints, 1, k),
                               info.qc.order_by)).cost

\* C31: EstimateCost returns (cost 1000, rows 0) iff row_count = 0; for
\* every row_count >= 1 and every constraint sequence 1 <= estimated_rows <=
\* row_count and the running estimate never increases from one constraint
\* to the next; the constraints after the point where the estimate has
\* dropped below 2 change the cost only by making the set larger than one
\* constraint: the cost is the same under every sequence with the same
\* constraints up to that point that has, like this one, one constraint or
\* not one.
C31_RowEstimateBounds ==
  (op.name = "BestIndex" /\ op.returned /\ info.written) =>
    /\ RowEstimateBounds
    /\ \A k \in 0..(Len(info.qc.constraints) - 1) :
         (row_count >= 1 /\ RowsAfter(k) < 2) =>
           \A cs2 \in SeqsUpTo(CostConstraints, MaxCostConstraints) :
             (/\ Len(cs2) >= k
              /\ SubSeq(cs2, 1, k) = SubSeq(info.qc.constraints, 1, k)
              /\ (Len(cs2) = 1) = (Len(info.qc.constraints) = 1)) =>
               info.estimated_cost
                 = EstimateCost(schema_, row_count,
                                Qc(cs2, info.qc.order_by)).cost

\* BestIndex on a table of four rows under [plain = x, sorted > y]: the
\* estimate is 1 after the first constraint, the second is not charged, and
\* the cost, 1000 + 4 + 2, is above the 1000 + log2(4) + 2 of [plain = x]
\* alone
C31_Witness ==
  /\ op.name = "BestIndex" /\ op.returned /\ info.written
  /\ row_count = 4
  /\ info.qc = Qc(<<[column |-> 3, op |-> "EQ"],
                    [column |-> 2, op |-> "GT"]>>, << >>)
  /\ RowsAfter(1) = 1
  /\ info.estimated_rows = 1
  /\ info.estimated_cost = 1006 * Milli
  /\ EstimateCost(schema_, 4, Qc(<<[column |-> 3, op |-> "EQ"]>>,
                                  << >>)).cost = 1004 * Milli

\* C32 as stated: for every pid P and every user mapping M in
\* user_memory[P], M's JIT delegate is set iff some range stored in
\* jit_delegates[P] contains M's range, and it is then the delegate stored
\* for that range; so no user mapping outside a new JIT range keeps the
\* delegate of a range that AddJitRange has deleted.
C32_DelegateIffContained ==
  \A upid \in DOMAIN user_memory :
    \A r \in DOMAIN user_memory[upid] :
      LET m == mappings_by_id[user_memory[upid][r]]
          jd == MapAt(jit_delegates, upid)
          containing == {q \in DOMAIN jd : Contains(q, m.memory_range)}
      IN  /\ (m.jit_delegate # NoDelegate) <=> (containing # {})
          /\ \A q \in containing : m.jit_delegate = jd[q]

\* after a step, every user mapping inside a stored JIT range of its pid
\* has the delegate of that range, and no mapping has lost its delegate
C32_Step ==
  /\ \A upid \in DOMAIN user_memory' :
       \A r \in DOMAIN user_memory'[upid] :
         LET m == mappings_by_id'[user_memory'[upid][r]]
             jd == IF upid \in DOMAIN jit_delegates'
                   THEN jit_delegates'[upid] ELSE EmptyFcn
         IN  \A q \in DOMAIN jd :
               Contains(q, m.memory_range) => m.jit_delegate = jd[q]
  /\ \A id \in DOMAIN mappings_by_id :
       mappings_by_id[id].jit_delegate # NoDelegate =>
         mappings_by_id'[id].jit_delegate # NoDelegate

\* C32: in every reachable tracker state, for every pid P and every user
\* mapping M in user_memory[P], M's JIT delegate is set if some range stored
\* in jit_delegates[P] contains M's range, and it is then the delegate
\* stored for that range; a delegate once set is never cleared, so a user
\* mapping outside the new range keeps the delegate of a range that
\* AddJitRange has deleted.
C32_DelegateConsistency == [][C32_Step]_vars

\* AddJitRange has deleted the JIT range that contained a user mapping and
\* stored one that does not overlap it: the mapping still has a delegate
C32_Witness ==
  /\ op.name = "AddJitRange" /\ op.returned
  /\ \E r \in DOMAIN MapAt(user_memory, op.args.upid) :
       LET m == mappings_by_id[user_memory[op.args.upid][r]]
       IN  /\ m.jit_delegate # NoDelegate
           /\ m.jit_delegate # op.args.delegate
           /\ ~Overlaps(op.args.range, m.memory_range)
           /\ \A q \in DOMAIN jit_delegates[op.args.upid] :
                ~Contains(q, m.memory_range)

\* the kernel core is the one GetOrCreateKernelMemoryMappingDefault builds:
\* range [0, 0) and load bias 2^64 - 1 (CreateKernelMemoryMapping is called
\* with a load bias of 0 here)
DefaultCoreCreated ==
  /\ kernel # NoMapping
  /\ mappings_by_id[kernel].memory_range = AddressRange(0, 0)
  /\ mappings_by_id[kernel].load_bias = AllOnes64

\* a step from a state with the default core: the core stays the core with
\* its range, no lookup returns it, and CreateKernelMemoryMapping with a
\* core name and a range other than [0, 0) aborts
C33_Step ==
  DefaultCoreCreated =>
    /\ kernel' = kernel
    /\ mappings_by_id'[kernel].memory_range = AddressRange(0, 0)
    /\ op'.name = "FindKernelMappingForAddress" => op'.ret # kernel
    /\ (/\ op'.name = "CreateKernelMemoryMapping"
        /\ ~IsKernelModule(op'.args.params.name)
        /\ op'.args.params.memory_range # AddressRange(0, 0)) =>
         (~op'.returned /\ aborted')

\* C33: once GetOrCreateKernelMemoryMappingDefault has created the core
\* (range [0, 0)), FindKernelMappingForAddress never returns that core for
\* any address, every later CreateKernelMemoryMapping with a kernel-core
\* name and a range other than [0, 0) aborts the process, and the core's
\* range is never updated.
C33_DefaultKernelSticky == [][C33_Step]_vars

\* with the default core as the only mapping, the third call,
\* CreateKernelMemoryMapping with a core name and the range [0, 1), aborted
C33_Witness ==
  /\ DefaultCoreCreated
  /\ ncalls = 3
  /\ op.name = "CreateKernelMemoryMapping"
  /\ ~IsKernelModule(op.args.params.name)
  /\ op.args.params.memory_range = AddressRange(0, 1)
  /\ aborted
  /\ DOMAIN mappings_by_id = {kernel}

\* a step is a Filter with history Same on a Static or Runtime cursor with
\* a cache. The attempt to populate the cache is the call that finds no
\* table latched and the counter at kRepeatedThreshold; while no table is
\* latched the counter is the number of Same calls since the Different
\* call, so that one call of the run at most is the attempt. GetOrCache is
\* called, and a table latched, in the attempt only and only for one Eq
\* constraint on a column that is not sorted; while a table is latched,
\* the counter and the table stay.
C34_Step ==
  (/\ op'.name = "Filter" /\ op'.returned /\ op'.args.history = "kSame"
   /\ computation \in {"kStatic", "kRuntime"} /\ cache_) =>
    LET cs == op'.args.qc.constraints
        attempt == /\ sorted_cache_table_ = NoTable
                   /\ repeated_cache_count_ = kRepeatedThreshold
        eligible == /\ Len(cs) = 1
                    /\ cs[1].op = "EQ"
                    /\ ~ColumnAt(schema_, cs[1].column).is_sorted
        populated ==
          \/ \E i \in 1..Len(events') : events'[i].call = "GetOrCache"
          \/ sorted_cache_table_' # sorted_cache_table_
    IN  /\ sorted_cache_table_ = NoTable =>
             /\ repeated_cache_count_ = same_run
             /\ repeated_cache_count_' = repeated_cache_count_ + 1
        /\ populated => (attempt /\ eligible)
        /\ sorted_cache_table_ # NoTable =>
             /\ repeated_cache_count_' = repeated_cache_count_
             /\ sorted_cache_table_' = sorted_cache_table_

\* C34: on a Static/Runtime cursor, between two Filter calls with history
\* Different the cache-population attempt is made on at most one Same call;
\* if the constraint set is ineligible on that call, no later Same call
\* attempts to populate the cache or latches a sorted table until a
\* Different call resets the counter, and while a sorted table is latched
\* the repeated counter does not change.
C34_NoRetryAfterThreshold == [][C34_Step]_vars

\* the sixth Same Filter on two constraints: the attempt was two calls
\* before, nothing was put in the cache and nothing is latched
C34_Witness ==
  /\ op.name = "Filter" /\ op.returned /\ op.args.history = "kSame"
  /\ Len(op.args.qc.constraints) = 2
  /\ same_run = 6
  /\ repeated_cache_count_ = 6
  /\ sorted_cache_table_ = NoTable
  /\ query_cache = {}
  /\ EventsOf("GetOrCache") = {}

\* a step is a SetLastFtraceEventId(c, id) that wrote inside the vector:
\* the value GetLastFtraceEventId returns for every other cpu is what it was
C35_Step ==
  (op'.name = "SetLastFtraceEventId" /\ op'.ret = "ok") =>
    \A d \in FtraceCpus \ {op'.args.cpu} :
       GetLastFtraceEventIdResult(d)' = GetLastFtraceEventIdResult(d)

\* C35: for all cpus c # d, SetLastFtraceEventId(c, id) does not change the
\* value GetLastFtraceEventId(d) returns; an id recorded for a
\* higher-numbered cpu is still returned after an id is recorded for a
\* lower-numbered cpu.
C35_PerCpuIndependence == [][C35_Step]_vars

\* C36: GetLastFtraceEventId(c) returns none for a cpu that was never set;
\* right after SetLastFtraceEventId(c, id) it returns id for every cpu c in
\* [0, 2^32 - 2] and every id but 2^32 - 1, for which it returns none; and
\* SetLastFtraceEventId never indexes outside the vector, c = 2^32 - 1
\* included.
C36_RoundTrip ==
  /\ (op.name = "GetLastFtraceEventId" /\ op.args.cpu \notin cpus_set) =>
       op.ret = NullOpt
  /\ op.name = "SetLastFtraceEventId" =>
       /\ op.ret = "ok"
       /\ op.args.cpu # -1 =>
            GetLastFtraceEventIdResult(op.args.cpu)
              = (IF op.args.id = NoFtraceEventId THEN NullOpt
                 ELSE Some(op.args.id))

====
